---------------------------- MODULE Spec2Model ----------------------------
(***************************************************************************)
(* Model of the packet trace reader of nfstest (packet/pktt.py), the TCP   *)
(* stream reassembly (packet/transport/tcp.py) and the RPC header decoder  *)
(* with call/reply correlation (packet/application/rpc.py).                *)
(*                                                                         *)
(* A capture is a sequence of frames.  The TCP payload of a frame is a     *)
(* sequence of bytes (0..255); the RPC record mark, the RPC header and the *)
(* credentials are decoded from those bytes word by word as the code does. *)
(* The Ethernet/IP/TCP headers are fixed-size and are represented by their *)
(* decoded fields plus the number of captured bytes, which decides whether *)
(* the fixed-size unpack of a header has enough bytes.                     *)
(*                                                                         *)
(* The working buffer of the packet trace object is represented by its     *)
(* unread bytes (rpc.py: pktt.data; tcp.py: unpack.getbytes()).            *)
(***************************************************************************)
EXTENDS Integers, Sequences, FiniteSets, TLC

(***************************************************************************)
(* Bytes, words and python slices                                          *)
(***************************************************************************)

\* data[:n] of a python string
Take(d, n) == IF n <= 0 THEN << >> ELSE IF n >= Len(d) THEN d ELSE SubSeq(d, 1, n)

\* data[n:] of a python string
Drop(d, n) == IF n <= 0 THEN d ELSE IF n >= Len(d) THEN << >> ELSE SubSeq(d, n + 1, Len(d))

\* the 4 bytes an unsigned integer is unpacked from (struct '!I')
Word(d) == <<d[1], d[2], d[3], d[4]>>

\* an unsigned 32 bit integer is kept as its 4 big-endian bytes; Hi is its
\* top bit (psize >> 31) and Val31 its low 31 bits (psize & 0x7FFFFFFF)
Hi(w) == w[1] \div 128

Val31(w) == (w[1] % 128) * 16777216 + w[2] * 65536 + w[3] * 256 + w[4]

\* the word of a small number
U(n) == <<0, 0, 0, n>>

\* w > n for an unsigned 32 bit word w and a small number n
WordGt(w, n) == Hi(w) = 1 \/ Val31(w) > n

\* number of bytes read(size, pad=4) moves over: size rounded up to 4
Pad4(n) == ((n + 3) \div 4) * 4

\* the unread bytes after rawdata(size, pad=4) where size is the word w
SkipOpaque(d, w) == IF WordGt(w, Len(d)) THEN << >> ELSE Drop(d, Pad4(Val31(w)))

AllZero(d) == \A i \in 1..Len(d) : d[i] = 0

(***************************************************************************)
(* RPC constants (packet/application/rpc_const.py)                         *)
(***************************************************************************)
CALL == 0
REPLY == 1
MSG_ACCEPTED == 0
MSG_DENIED == 1
PROG_MISMATCH == 2
AUTH_ERROR == 1
AUTH_SYS == 1
RPCSEC_GSS == 6
RPCSEC_GSS_DATA == 0
RPCSEC_GSS_INIT == 1
rpc_gss_svc_integrity == 2
NFS_PROGRAM == 100003

\* accept_stat, reject_stat and auth_stat hold the keys 0..max
MaxAcceptStat == 5
MaxRejectStat == 1
MaxAuthStat == 14

\* w is a key of a table with the keys 0..max
InTable(w, max) == Hi(w) = 0 /\ Val31(w) <= max

\* 100003 as a word
NfsProgramWord == <<0, (NFS_PROGRAM \div 65536) % 256, (NFS_PROGRAM \div 256) % 256, NFS_PROGRAM % 256>>

\* the transient program range [0x40000000, 0x5FFFFFFF] of callbacks
IsTransient(w) == w[1] >= 64 /\ w[1] < 96

(***************************************************************************)
(* Credentials: RPC._rpc_credential                                        *)
(***************************************************************************)
\* the credential is None; d is what is left unread
NoCred(d) ==
    [res |-> "none", d |-> d, flavor |-> U(0), gss_proc |-> U(0), gss_service |-> U(0)]

RaiseCred == [NoCred(<< >>) EXCEPT !.res = "raise"]

\* a credential without the fields of RPCSEC_GSS
Cred(d, flavor) == [NoCred(d) EXCEPT !.res = "ok", !.flavor = flavor]

\* unpack_array(maxcount) of unsigned integers: the unread bytes, or "raise"
RECURSIVE unpack_uints(_, _)
unpack_uints(d, n) ==
    IF n = 0 THEN [ok |-> TRUE, d |-> d]
    ELSE IF Len(d) < 4 THEN [ok |-> FALSE, d |-> d]
    ELSE unpack_uints(Drop(d, 4), n - 1)

MaxMachine == 255
MaxGids == 16

\* the AUTH_SYS body without the limits of the machine name and of the
\* gids
cred_sys_unbounded(d, flavor) ==
    LET gids(g) == IF g.ok THEN Cred(g.d, flavor) ELSE RaiseCred
        ids(d2) ==
            IF Len(d2) < 12 THEN RaiseCred
            ELSE gids(unpack_uints(Drop(d2, 12), Val31(Word(Drop(d2, 8)))))
    IN IF Len(d) < 12 THEN RaiseCred
       ELSE ids(SkipOpaque(Drop(d, 12), Word(Drop(d, 8))))

\* AUTH_SYS body: size, stamp, machine<255>, uid, gid, gids<16>
cred_sys(d, flavor) ==
    LET \* g: what unpack_array of the gids left
        gids(g) == IF g.ok THEN Cred(g.d, flavor) ELSE RaiseCred
        \* d2: the unread bytes after the machine name
        ids(d2) ==
            IF Len(d2) < 12 THEN RaiseCred
            ELSE IF WordGt(Word(Drop(d2, 8)), MaxGids) THEN RaiseCred
            ELSE gids(unpack_uints(Drop(d2, 12), Val31(Word(Drop(d2, 8)))))
    IN IF Len(d) < 12 THEN RaiseCred
       ELSE IF WordGt(Word(Drop(d, 8)), MaxMachine) THEN RaiseCred
       ELSE ids(SkipOpaque(Drop(d, 12), Word(Drop(d, 8))))

\* RPCSEC_GSS credential: size, version, proc, seq_num, service, context<>
\* RPCSEC_GSS verifier: token<>
cred_gss(d, flavor, verifier) ==
    IF ~verifier
    THEN IF Len(d) < 24 THEN RaiseCred
         ELSE [Cred(SkipOpaque(Drop(d, 24), Word(Drop(d, 20))), flavor) EXCEPT
                  !.gss_proc = Word(Drop(d, 8)), !.gss_service = Word(Drop(d, 16))]
    ELSE Cred(SkipOpaque(Drop(d, 4), Word(d)), flavor)

rpc_credential(data, verifier) ==
    IF Len(data) < 8 THEN NoCred(data)
    ELSE LET flavor == Word(data)
             d      == Drop(data, 4)
             size   == Word(d)
         IN IF WordGt(size, Len(d)) THEN NoCred(d)
            ELSE IF flavor = U(AUTH_SYS) THEN cred_sys(d, flavor)
            ELSE IF flavor = U(RPCSEC_GSS) THEN cred_gss(d, flavor, verifier)
            ELSE Cred(Drop(Drop(d, 4), Val31(size)), flavor)

(***************************************************************************)
(* RPC header: RPC._rpc_header                                             *)
(***************************************************************************)
\* flavor, gss_proc and gss_service are those of the credential of a call;
\* hasverifier: the verifier attribute is set, vflavor its flavor, hasgss: it
\* has gss_proc and gss_service (a reply whose call had an RPCSEC_GSS
\* credential); gssd and gssc: pkt.gssd and pkt.gssc were set for the message
NoGssc == [present |-> FALSE, token |-> << >>]

NoRpc ==
    [ok |-> FALSE, fsize |-> 0, d |-> << >>, xid |-> U(0), type |-> U(0),
     hasprog |-> FALSE, program |-> U(0), version |-> U(0), procedure |-> U(0),
     flavor |-> U(0), gss_proc |-> U(0), gss_service |-> U(0),
     hasverifier |-> FALSE, vflavor |-> U(0), hasgss |-> FALSE,
     gssd |-> FALSE, gssc |-> NoGssc]

\* the record marking loop: fragment header(s), then the fragments are
\* concatenated in front of the unread bytes
RECURSIVE fragment_hdr(_, _)
fragment_hdr(data, save_data) ==
    IF Len(data) < 4 THEN [ok |-> FALSE, size |-> 0, d |-> data]
    ELSE LET psize == Word(data)
             d     == Drop(data, 4)
             size  == Val31(psize) + Len(save_data)
         IN IF size = 0 THEN [ok |-> FALSE, size |-> 0, d |-> d]
            ELSE IF Hi(psize) = 0 /\ size < Len(d)
                 THEN fragment_hdr(Drop(d, size), save_data \o Take(d, size))
                 ELSE [ok |-> TRUE, size |-> size, d |-> save_data \o d]

\* the end of the call header: rpc_version is checked after the credential
\* and the verifier were unpacked
rpc_call_header(f, xid, d, credential, verifier) ==
    IF verifier.res = "raise" THEN NoRpc
    ELSE IF Word(d) # U(2)
            \/ (credential.flavor \in {U(0), U(1)} /\ verifier.res = "none")
         THEN NoRpc
         ELSE [NoRpc EXCEPT !.ok = TRUE, !.fsize = f.size, !.d = verifier.d, !.xid = xid,
                            !.type = U(CALL), !.hasprog = TRUE, !.program = Word(Drop(d, 4)),
                            !.version = Word(Drop(d, 8)), !.procedure = Word(Drop(d, 12)),
                            !.flavor = credential.flavor,
                            !.gss_proc = credential.gss_proc,
                            !.gss_service = credential.gss_service,
                            !.hasverifier = verifier.res = "ok",
                            !.vflavor = verifier.flavor]

\* the verifier of a call is unpacked from what the credential left
rpc_call_verifier(f, xid, d, credential) ==
    IF credential.res # "ok" THEN NoRpc
    ELSE rpc_call_header(f, xid, d, credential, rpc_credential(credential.d, TRUE))

\* type CALL: rpc_version, program, version, procedure, credential, verifier
rpc_call(f, xid, d) ==
    IF Len(d) < 16 THEN NoRpc
    ELSE rpc_call_verifier(f, xid, d, rpc_credential(Drop(d, 16), FALSE))

\* type REPLY: reply_status, then the accepted or the denied reply
rpc_reply(f, xid, d) ==
    LET done(rest) == [NoRpc EXCEPT !.ok = TRUE, !.fsize = f.size, !.d = rest,
                                    !.xid = xid, !.type = U(REPLY)]
        \* d2: the unread bytes after accepted_status
        verified(rpc, verifier) ==
            IF rpc.ok THEN [rpc EXCEPT !.hasverifier = TRUE, !.vflavor = verifier.flavor]
            ELSE rpc
        accepted(accepted_status, d2) ==
            IF accepted_status = U(PROG_MISMATCH)
            THEN IF Len(d2) < 8 THEN NoRpc ELSE done(Drop(d2, 8))
            ELSE IF ~InTable(accepted_status, MaxAcceptStat) THEN NoRpc
            ELSE done(d2)
        with_verifier(verifier) ==
            IF verifier.res # "ok" \/ Len(verifier.d) < 4 THEN NoRpc
            ELSE verified(accepted(Word(verifier.d), Drop(verifier.d, 4)), verifier)
        \* d2: the unread bytes after rejected_status.  RPC_MISMATCH is the
        \* tuple (0,): the comparison with it is never true
        denied(rejected_status, d2) ==
            IF rejected_status = U(AUTH_ERROR)
            THEN IF Len(d2) < 4 THEN NoRpc
                 ELSE IF ~InTable(Word(d2), MaxAuthStat) THEN NoRpc
                 ELSE done(Drop(d2, 4))
            ELSE IF ~InTable(rejected_status, MaxRejectStat) THEN NoRpc
            ELSE done(d2)
    IN IF Len(d) < 4 THEN NoRpc
       ELSE IF Word(d) = U(MSG_ACCEPTED) THEN with_verifier(rpc_credential(Drop(d, 4), TRUE))
       ELSE IF Word(d) = U(MSG_DENIED)
            THEN IF Len(d) < 8 THEN NoRpc ELSE denied(Word(Drop(d, 4)), Drop(d, 8))
       ELSE NoRpc

\* xid and type, after the record mark f
rpc_message(f) ==
    IF ~f.ok \/ Len(f.d) < 8 THEN NoRpc
    ELSE IF Word(Drop(f.d, 4)) = U(CALL) THEN rpc_call(f, Word(f.d), Drop(f.d, 8))
    ELSE IF Word(Drop(f.d, 4)) = U(REPLY) THEN rpc_reply(f, Word(f.d), Drop(f.d, 8))
    ELSE NoRpc

\* the header decode of RPC.__init__ for proto 6; every exception is caught
rpc_header(data) == rpc_message(fragment_hdr(data, << >>))

(***************************************************************************)
(* The NFS compound decoder is an external collaborator.  Its interface:   *)
(* decode a compound from the unread bytes, return the tree and the number *)
(* of bytes consumed, or raise.  The wire form used here is                *)
(*   COMPOUND4args: count, count * argop                                   *)
(*   COMPOUND4res:  status, count, count * resop                           *)
(* The tag of every compound is the empty string.  The callback decoders   *)
(* read the same wire form; cb tells which pair decoded the compound.      *)
(***************************************************************************)
NoNfs ==
    [present |-> FALSE, cb |-> FALSE, isarg |-> FALSE, status |-> U(0), tag |-> << >>,
     ops |-> << >>]

RECURSIVE unpack_ops(_, _)
unpack_ops(d, n) == IF n = 0 THEN << >> ELSE <<Word(d)>> \o unpack_ops(Drop(d, 4), n - 1)

unpack_COMPOUND4args(d) ==
    IF Len(d) < 4 \/ WordGt(Word(d), (Len(d) - 4) \div 4) THEN [ok |-> FALSE, pos |-> 0, nfs |-> NoNfs]
    ELSE LET n == Val31(Word(d))
         IN [ok |-> TRUE, pos |-> 4 + 4 * n,
             nfs |-> [NoNfs EXCEPT !.present = TRUE, !.isarg = TRUE,
                                   !.ops = unpack_ops(Drop(d, 4), n)]]

unpack_COMPOUND4res(d) ==
    IF Len(d) < 8 \/ WordGt(Word(Drop(d, 4)), (Len(d) - 8) \div 4) THEN [ok |-> FALSE, pos |-> 0, nfs |-> NoNfs]
    ELSE LET n == Val31(Word(Drop(d, 4)))
         IN [ok |-> TRUE, pos |-> 8 + 4 * n,
             nfs |-> [NoNfs EXCEPT !.present = TRUE, !.status = Word(d),
                                   !.ops = unpack_ops(Drop(d, 8), n)]]

callback(r) == [r EXCEPT !.nfs.cb = r.ok]

unpack_CB_COMPOUND4args(d) == callback(unpack_COMPOUND4args(d))

unpack_CB_COMPOUND4res(d) == callback(unpack_COMPOUND4res(d))

(***************************************************************************)
(* GSS.decode_gss_data and GSS.decode_gss_checksum.  self.data and the     *)
(* unpack methods of the rpc object are the unread bytes of the packet     *)
(* trace object and its unpack methods.  Every exception is caught; the    *)
(* bytes read before it stay consumed.                                     *)
(***************************************************************************)
\* the message carries RPCSEC_GSS fields: in the credential of a call, on
\* the verifier of a reply
has_gss(rpc) ==
    IF rpc.type = U(CALL) THEN rpc.flavor = U(RPCSEC_GSS)
    ELSE rpc.hasverifier /\ rpc.vflavor = U(RPCSEC_GSS) /\ rpc.hasgss

gss_integrity(rpc) ==
    /\ has_gss(rpc)
    /\ rpc.gss_proc = U(RPCSEC_GSS_DATA)
    /\ rpc.gss_service = U(rpc_gss_svc_integrity)

\* n unsigned integers, then an opaque when token is set
gss_words(data, n, token) ==
    IF Len(data) < 4 * n + (IF token THEN 4 ELSE 0) THEN [d |-> << >>, gssd |-> FALSE]
    ELSE IF token
    THEN [d |-> SkipOpaque(Drop(data, 4 * n + 4), Word(Drop(data, 4 * n))), gssd |-> TRUE]
    ELSE [d |-> Drop(data, 4 * n), gssd |-> TRUE]

\* _gss_data_call and _gss_data_reply
decode_gss_data(rpc, data) ==
    LET none == [d |-> data, gssd |-> FALSE]
    IN IF Len(data) < 4 \/ ~has_gss(rpc) THEN none
       ELSE IF rpc.gss_proc = U(RPCSEC_GSS_DATA)
       THEN IF rpc.gss_service = U(rpc_gss_svc_integrity)
            THEN gss_words(data, 2, FALSE) ELSE none
       ELSE IF rpc.gss_proc = U(RPCSEC_GSS_INIT)
       THEN IF rpc.type = U(CALL) THEN gss_words(data, 0, TRUE)
            ELSE \* context, major, minor, seq_window, token
                 gss_words(SkipOpaque(Drop(data, 4), Word(data)), 3, TRUE)
       ELSE none

\* the unread bytes and pkt.gssc after the checksum decode
decode_gss_checksum(rpc, data) ==
    IF Len(data) < 4 \/ ~gss_integrity(rpc) THEN [d |-> data, gssc |-> NoGssc]
    ELSE [d |-> SkipOpaque(Drop(data, 4), Word(data)),
          gssc |-> [present |-> TRUE,
                    token |-> IF Hi(Word(data)) = 1 THEN Drop(data, 4)
                              ELSE Take(Drop(data, 4), Val31(Word(data)))]]

(***************************************************************************)
(* RPC.decode_nfs: the nfs layer (or none), the unread bytes after it, the *)
(* rpc layer with what the GSS decode set on the packet, the decoder that  *)
(* was called ("" when none was) and the unread bytes it was given         *)
(***************************************************************************)
\* the checksum decode not kept for the case that the decoder returned
decode_nfs_unchecked(rpc, g, decoder, r) ==
    LET c == decode_gss_checksum(rpc, Drop(g.d, r.pos))
    IN [nfs |-> r.nfs, d |-> c.d, rpc |-> [rpc EXCEPT !.gssd = g.gssd, !.gssc = c.gssc],
        decoder |-> decoder, given |-> g.d]

decode_nfs_layer(rpc, g, decoder, r) ==
    LET none == [nfs |-> NoNfs, d |-> g.d, rpc |-> [rpc EXCEPT !.gssd = g.gssd],
                 decoder |-> decoder, given |-> g.d]
        checked(c) == [none EXCEPT !.nfs = r.nfs, !.d = c.d, !.rpc.gssc = c.gssc]
    IN IF r.ok THEN checked(decode_gss_checksum(rpc, Drop(g.d, r.pos))) ELSE none

NoDecode == [ok |-> FALSE, pos |-> 0, nfs |-> NoNfs]

decode_nfs_data(rpc, g) ==
    LET none == decode_nfs_layer(rpc, g, "", NoDecode)
    IN IF ~rpc.hasprog THEN none
       ELSE IF Len(g.d) = 0 \/ rpc.procedure = U(0) \/ rpc.version = U(0) THEN none
       ELSE IF rpc.program # NfsProgramWord /\ ~IsTransient(rpc.program) THEN none
       ELSE LET cb_flag == rpc.program # NfsProgramWord
            IN IF rpc.procedure = U(1)
                  /\ ((~cb_flag /\ rpc.version = U(4)) \/ (cb_flag /\ rpc.version = U(1)))
               THEN IF rpc.type = U(CALL)
                    THEN IF cb_flag
                         THEN decode_nfs_layer(rpc, g, "unpack_CB_COMPOUND4args",
                                               unpack_CB_COMPOUND4args(g.d))
                         ELSE decode_nfs_layer(rpc, g, "unpack_COMPOUND4args",
                                               unpack_COMPOUND4args(g.d))
                    ELSE IF cb_flag
                         THEN decode_nfs_layer(rpc, g, "unpack_CB_COMPOUND4res",
                                               unpack_CB_COMPOUND4res(g.d))
                         ELSE decode_nfs_layer(rpc, g, "unpack_COMPOUND4res",
                                               unpack_COMPOUND4res(g.d))
               ELSE none

decode_nfs(rpc, data) == decode_nfs_data(rpc, decode_gss_data(rpc, data))

(***************************************************************************)
(* The pending-call map pktt._rpc_xid_map: xid -> packet of the call.      *)
(* A packet is referred to by its frame index and by what its rpc          *)
(* attribute holds when the reply looks it up (hasrpc: the attribute is    *)
(* set, which happens only when the record of the call was complete).      *)
(***************************************************************************)
Put(m, k, v) == [x \in (DOMAIN m) \cup {k} |-> IF x = k THEN v ELSE m[x]]

Pop(m, k) == [x \in (DOMAIN m) \ {k} |-> m[x]]

EmptyMap == [x \in {} |-> 0]

CallEntry(index, rpc, hasrpc) ==
    [index |-> index, hasrpc |-> hasrpc, program |-> rpc.program,
     version |-> rpc.version, procedure |-> rpc.procedure,
     flavor |-> rpc.flavor, gss_proc |-> rpc.gss_proc, gss_service |-> rpc.gss_service]

\* the reply takes program, version and procedure of its call, and the
\* RPCSEC_GSS fields of the credential of the call on its verifier (which a
\* denied reply does not have: the exception is caught)
reply_state(rpc, call) ==
    [rpc EXCEPT !.hasprog = TRUE,
                !.program = call.program,
                !.version = call.version,
                !.procedure = call.procedure,
                !.hasgss = call.flavor = U(RPCSEC_GSS) /\ rpc.hasverifier,
                !.gss_proc = IF call.flavor = U(RPCSEC_GSS) /\ rpc.hasverifier
                             THEN call.gss_proc ELSE @,
                !.gss_service = IF call.flavor = U(RPCSEC_GSS) /\ rpc.hasverifier
                                THEN call.gss_service ELSE @]

\* RPC(pktt, proto=6, state): header decode, then the state part of
\* _rpc_header (insert on CALL, lookup on REPLY)
RPC(data, xmap, state, index) ==
    LET with_state(rpc) ==
            IF ~rpc.ok \/ ~state THEN [rpc |-> rpc, xmap |-> xmap]
            ELSE IF rpc.type = U(CALL)
                 THEN [rpc |-> rpc, xmap |-> Put(xmap, rpc.xid, CallEntry(index, rpc, FALSE))]
                 ELSE IF rpc.xid \in DOMAIN xmap /\ xmap[rpc.xid].hasrpc
                      THEN [rpc |-> reply_state(rpc, xmap[rpc.xid]), xmap |-> xmap]
                      ELSE [rpc |-> rpc, xmap |-> xmap]
    IN with_state(rpc_header(data))

(***************************************************************************)
(* TCP._decode_payload                                                     *)
(* index: frame index of the packet being built; truncbytes: length_orig - *)
(* length_inc of its record; tcp: the tcp layer; stream: the stream entry; *)
(* payload: the bytes after the TCP header; xmap: the pending-call map.    *)
(* Result: the stream entry, the map, the rpc and nfs layers of the packet *)
(* and whether the file offset was put back to the start of the frame.     *)
(***************************************************************************)
ACK_ONLY == 16

NONVALID_MAX == 20

Payload(stream, xmap, rpc, nfs, again) ==
    [stream |-> stream, xmap |-> xmap, rpc |-> rpc, nfs |-> nfs, again |-> again]

\* the file offset is put back for the next record of the segment and the
\* offset of that record in the segment is not kept
payload_next_forgets(stream3, xmap2, rpc, n, rpc_header_next) ==
    IF ~rpc_header_next.ok \/ Len(n.d) - 4 < rpc_header_next.fsize
    THEN Payload([stream3 EXCEPT !.msfrag = @ \o n.d], xmap2, n.rpc, n.nfs, FALSE)
    ELSE Payload([stream3 EXCEPT !.frag_off = 0], xmap2, n.rpc, n.nfs, TRUE)

\* the bytes after the record: rpc_header_next is RPC(state=False) on them
\* (None when it raised)
payload_next(stream3, xmap2, rpc, n, rpc_header_next) ==
    IF ~rpc_header_next.ok \/ Len(n.d) - 4 < rpc_header_next.fsize
    THEN \* part of the next RPC packet is within this TCP packet
         Payload([stream3 EXCEPT !.msfrag = @ \o n.d], xmap2, n.rpc, n.nfs, FALSE)
    ELSE \* the next RPC packet is entirely within this TCP packet
         Payload(stream3, xmap2, n.rpc, n.nfs, TRUE)

\* after decode_nfs; n: the nfs layer and the bytes it left unread
payload_nfs(size, ldata, stream2, xmap2, rpc, n) ==
    IF ~n.nfs.present /\ ldata - Len(n.d) # rpc.fsize
    THEN Payload(stream2, xmap2, n.rpc, n.nfs, FALSE)
    ELSE IF Len(n.d) > 0
    THEN payload_next([stream2 EXCEPT !.frag_off = @ + size - Len(n.d)], xmap2, rpc, n,
                      rpc_header(n.d))
    ELSE Payload([stream2 EXCEPT !.frag_off = 0], xmap2, n.rpc, n.nfs, FALSE)

\* frag_off not reset when the record of the header is decoded
payload_rpc_keeps(index, truncbytes, data, stream1, try2, ldata) ==
    IF ~try2.rpc.ok THEN Payload(stream1, try2.xmap, NoRpc, NoNfs, FALSE)
    ELSE IF truncbytes = 0 /\ ldata < try2.rpc.fsize
    THEN Payload([stream1 EXCEPT !.msfrag = @ \o data], try2.xmap, NoRpc, NoNfs, FALSE)
    ELSE payload_nfs(Len(data), ldata, [stream1 EXCEPT !.msfrag = << >>],
                     IF try2.rpc.type = U(CALL)
                     THEN Put(try2.xmap, try2.rpc.xid, CallEntry(index, try2.rpc, TRUE))
                     ELSE Pop(try2.xmap, try2.rpc.xid),
                     try2.rpc, decode_nfs(try2.rpc, try2.rpc.d))

\* after the RPC header; try2: the header that is used and the map; ldata:
\* the number of bytes after the record mark
payload_rpc(index, truncbytes, data, stream1, try2, ldata) ==
    IF ~try2.rpc.ok THEN Payload(stream1, try2.xmap, NoRpc, NoNfs, FALSE)
    ELSE IF truncbytes = 0 /\ ldata < try2.rpc.fsize
    THEN \* an RPC fragment is missing to decode the RPC payload
         Payload([stream1 EXCEPT !.msfrag = @ \o data], try2.xmap, NoRpc, NoNfs, FALSE)
    ELSE payload_nfs(Len(data), ldata,
                     [stream1 EXCEPT
                         !.frag_off = IF Len(stream1.msfrag) > 0 \/ ldata = try2.rpc.fsize
                                      THEN 0 ELSE @,
                         !.msfrag = << >>],
                     \* pkt.rpc = rpc: the packet of a call in the map now has
                     \* its rpc
                     IF try2.rpc.type = U(CALL)
                     THEN Put(try2.xmap, try2.rpc.xid, CallEntry(index, try2.rpc, TRUE))
                     ELSE Pop(try2.xmap, try2.rpc.xid),
                     try2.rpc, decode_nfs(try2.rpc, try2.rpc.d))

\* after the reset for lost data; try1: the header decoded from the segment
\* alone (None when there is no msfrag data) and the map
payload_segment(index, truncbytes, tcp, data, stream1, try1) ==
    IF tcp.seq - stream1.last_seq # Len(stream1.msfrag)
       /\ Len(data) <= NONVALID_MAX /\ AllZero(data)
    THEN \* this segment has no valid data
         Payload(stream1, try1.xmap, NoRpc, NoNfs, FALSE)
    ELSE payload_rpc(index, truncbytes, data, stream1,
                     IF try1.rpc.ok THEN try1
                     ELSE RPC(stream1.msfrag \o data, try1.xmap, TRUE, index),
                     IF try1.rpc.ok THEN Len(data) - 4
                     ELSE Len(stream1.msfrag \o data) - 4)

\* the stream not reset when the header decodes from the segment alone
payload_resync_keeps(index, truncbytes, tcp, stream, data, try1) ==
    payload_segment(index, truncbytes, tcp, data,
                    IF Len(data) = 0 /\ Len(stream.msfrag) > 0 /\ tcp.flags_raw # ACK_ONLY
                    THEN [stream EXCEPT !.msfrag = << >>, !.frag_off = 0]
                    ELSE stream,
                    try1)

\* the stream reset by a segment without payload whatever its flags are
payload_resync_flags(index, truncbytes, tcp, stream, data, try1) ==
    payload_segment(index, truncbytes, tcp, data,
                    IF try1.rpc.ok \/ (Len(data) = 0 /\ Len(stream.msfrag) > 0)
                    THEN [stream EXCEPT !.msfrag = << >>, !.frag_off = 0]
                    ELSE stream,
                    try1)

\* try1: decoding the RPC header before using the msfrag data to re-sync
payload_resync(index, truncbytes, tcp, stream, data, try1) ==
    payload_segment(index, truncbytes, tcp, data,
                    IF try1.rpc.ok
                       \/ (Len(data) = 0 /\ Len(stream.msfrag) > 0 /\ tcp.flags_raw # ACK_ONLY)
                    THEN [stream EXCEPT !.msfrag = << >>, !.frag_off = 0]
                    ELSE stream,
                    try1)

decode_payload(index, truncbytes, tcp, stream, payload, xmap) ==
    LET \* unpack.seek(unpack.tell() + stream['frag_off'])
        data == IF stream.frag_off > 0 /\ Len(stream.msfrag) = 0
                THEN Drop(payload, stream.frag_off) ELSE payload
    IN payload_resync(index, truncbytes, tcp, stream, data,
                      IF Len(stream.msfrag) > 0 THEN RPC(data, xmap, TRUE, index)
                      ELSE [rpc |-> NoRpc, xmap |-> xmap])

(***************************************************************************)
(* IPv6Addr (packet/internet/ipv6addr.py).  A string is the sequence of    *)
(* its character codes; an integer argument is given by its eight 16 bit   *)
(* groups, most significant first                                          *)
(***************************************************************************)
\* the characters that are named below
Chr == [nul |-> 0, tab |-> 9, newline |-> 10, cr |-> 13, dquote |-> 34, squote |-> 39,
        zero |-> 48, two |-> 50, seven |-> 55, colon |-> 58, L |-> 76, bslash |-> 92,
        bquote |-> 96, a |-> 97, l |-> 108, n |-> 110, r |-> 114, t |-> 116, x |-> 120]

\* "0123456789abcdef"
HexDigits == <<48, 49, 50, 51, 52, 53, 54, 55, 56, 57, 97, 98, 99, 100, 101, 102>>

IsHex(c) == \E k \in 1..16 : HexDigits[k] = c

HexVal(c) == (CHOOSE k \in 1..16 : HexDigits[k] = c) - 1

\* "%x" % n
RECURSIVE hex_x(_)
hex_x(n) == IF n < 16 THEN <<HexDigits[n + 1]>>
            ELSE hex_x(n \div 16) \o <<HexDigits[(n % 16) + 1]>>

\* "%04x" % n
RECURSIVE zero_fill(_)
zero_fill(s) == IF Len(s) >= 4 THEN s ELSE zero_fill(<<Chr.zero>> \o s)

hex_04x(n) == zero_fill(hex_x(n))

\* s.lstrip('0')
RECURSIVE lstrip_zeros(_)
lstrip_zeros(s) == IF Len(s) > 0 /\ s[1] = Chr.zero THEN lstrip_zeros(Tail(s)) ELSE s

\* s.rstrip('Ll')
RECURSIVE rstrip_Ll(_)
rstrip_Ll(s) == IF Len(s) > 0 /\ s[Len(s)] \in {Chr.L, Chr.l}
                THEN rstrip_Ll(SubSeq(s, 1, Len(s) - 1)) ELSE s

\* s.replace('0x', '')
RECURSIVE replace_0x(_)
replace_0x(s) ==
    IF Len(s) < 2 THEN s
    ELSE IF s[1] = Chr.zero /\ s[2] = Chr.x THEN replace_0x(SubSeq(s, 3, Len(s)))
    ELSE <<s[1]>> \o replace_0x(Tail(s))

\* s.lower()
lower(s) == [k \in 1..Len(s) |-> IF s[k] \in 65..90 THEN s[k] + 32 ELSE s[k]]

\* s.split(':')
RECURSIVE split_colon(_, _)
split_colon(s, item) ==
    IF Len(s) = 0 THEN <<item>>
    ELSE IF s[1] = Chr.colon THEN <<item>> \o split_colon(Tail(s), << >>)
    ELSE split_colon(Tail(s), Append(item, s[1]))

\* ":".join(olist)
RECURSIVE join_colon(_)
join_colon(olist) ==
    IF Len(olist) = 0 THEN << >>
    ELSE IF Len(olist) = 1 THEN olist[1]
    ELSE olist[1] \o <<Chr.colon>> \o join_colon(Tail(olist))

\* int(s, 16) of up to four digits; -1: ValueError
RECURSIVE int16(_)
int16(s) ==
    IF Len(s) = 0 \/ \E k \in 1..Len(s) : ~IsHex(s[k]) THEN 0 - 1
    ELSE IF Len(s) = 1 THEN HexVal(s[1])
    ELSE 16 * int16(SubSeq(s, 1, Len(s) - 1)) + HexVal(s[Len(s)])

\* hex(ip) of an integer: no leading zeros, 'L' for a long integer (above
\* sys.maxint, 2^63 - 1)
hex_int(groups) ==
    LET digits == lstrip_zeros(hex_04x(groups[1]) \o hex_04x(groups[2]) \o hex_04x(groups[3])
                               \o hex_04x(groups[4]) \o hex_04x(groups[5]) \o hex_04x(groups[6])
                               \o hex_04x(groups[7]) \o hex_04x(groups[8]))
        long == (\E k \in 1..4 : groups[k] # 0) \/ groups[5] >= 32768
    IN <<Chr.zero, Chr.x>> \o (IF Len(digits) = 0 THEN <<Chr.zero>> ELSE digits)
       \o (IF long THEN <<Chr.L>> ELSE << >>)

\* the loop over the items of a string with ':'.  olen: the number of
\* groups that are missing; a ValueError of int(item, 16) gives ok = FALSE
RECURSIVE expand_items(_, _, _)
expand_items(ol, olen, ip) ==
    IF Len(ol) = 0 THEN [ok |-> TRUE, ip |-> ip]
    ELSE IF olen # 0 /\ Len(ol[1]) = 0
    THEN expand_items(Tail(ol), 0,
                      ip \o [k \in 1..(4 * (olen + 1)) |-> Chr.zero])
    ELSE IF int16(ol[1]) < 0 THEN [ok |-> FALSE, ip |-> ip]
    ELSE expand_items(Tail(ol), olen, ip \o hex_04x(int16(ol[1])))

\* for a, b, c, d in zip(t, t, t, t): the groups of four digits from the
\* left; what is left of fewer than four digits is dropped
RECURSIVE collapse_groups(_, _, _)
collapse_groups(ip, olist, collapse) ==
    IF Len(ip) < 4 THEN olist
    ELSE LET n == int16(SubSeq(ip, 1, 4))
             expr == collapse /\ n = 0 /\ Len(olist) > 0 /\ olist[Len(olist)] # << >>
         IN collapse_groups(SubSeq(ip, 5, Len(ip)),
                            IF n # 0 \/ expr
                            THEN Append(olist, IF n # 0 THEN hex_x(n) ELSE << >>)
                            ELSE olist,
                            IF expr THEN FALSE ELSE collapse)

\* the end of _convert: the test of the value and the canonical string
convert_digits(r) ==
    IF ~r.ok \/ Len(r.ip) = 0 \/ (\E k \in 1..Len(r.ip) : ~IsHex(r.ip[k]))
       \/ Len(lstrip_zeros(r.ip)) > 32
    THEN [ok |-> FALSE, ip |-> << >>]
    ELSE [ok |-> TRUE, ip |-> join_colon(collapse_groups(r.ip, << >>, TRUE))]

\* the text of _convert after hex(), rstrip(), replace() and lower()
convert_text(ip) ==
    convert_digits(IF \E k \in 1..Len(ip) : ip[k] = Chr.colon
                   THEN expand_items(split_colon(ip, << >>),
                                     8 - Len(split_colon(ip, << >>)), << >>)
                   ELSE [ok |-> TRUE, ip |-> ip])

\* IPv6Addr._convert(ip).  ip: [int |-> TRUE, groups |-> ...] for an integer,
\* [int |-> FALSE, text |-> ...] for a string.  ok = FALSE: ValueError
convert(ip) ==
    convert_text(lower(replace_0x(rstrip_Ll(IF ip.int THEN hex_int(ip.groups) ELSE ip.text))))

\* IPv6Addr(ip): the string that the object is
IPv6Addr(ip) == convert(ip)

\* IPv6Addr.__eq__(self, other): str(self) == self._convert(other)
IPv6Addr_eq(self, other) ==
    IF ~convert(other).ok THEN [ok |-> FALSE, eq |-> FALSE]
    ELSE [ok |-> TRUE, eq |-> (self = convert(other).ip)]

(***************************************************************************)
(* The stream key of a segment.  A frame names its directional 4-tuple     *)
(* (source ip, source port, destination ip, destination port) by its       *)
(* number in Tuples (sid); the entry of _tcp_stream_map that has the key   *)
(* of a tuple is kept at the least number of the tuples that have the key  *)
(***************************************************************************)
\* self.rawdata(16).encode('hex'): the 32 hex digits of an address of eight
\* groups
Hex32(g) ==
    hex_04x(g[1]) \o hex_04x(g[2]) \o hex_04x(g[3]) \o hex_04x(g[4])
    \o hex_04x(g[5]) \o hex_04x(g[6]) \o hex_04x(g[7]) \o hex_04x(g[8])

\* "%d" % n
RECURSIVE dec(_)
dec(n) == IF n < 10 THEN <<HexDigits[n + 1]>>
          ELSE dec(n \div 10) \o <<HexDigits[(n % 10) + 1]>>

\* ip.src, ip.dst as text: "%d.%d.%d.%d" of IPv4, IPv6Addr of IPv6
ip_text(v6, addr) ==
    IF v6 THEN IPv6Addr([int |-> FALSE, text |-> Hex32(addr)]).ip
    ELSE dec(addr[1]) \o <<46>> \o dec(addr[2]) \o <<46>> \o dec(addr[3]) \o <<46>>
         \o dec(addr[4])

\* streamid = "%s:%d-%s:%d" % (ip.src, self.src_port, ip.dst, self.dst_port)
streamid(t) ==
    ip_text(t.v6, t.src) \o <<Chr.colon>> \o dec(t.src_port) \o <<45>>
    \o ip_text(t.v6, t.dst) \o <<Chr.colon>> \o dec(t.dst_port)

\* the 4-tuples of the captures: the two directions of a connection over
\* IPv4, and two clients with different IPv6 addresses and the same server
Tuples ==
    <<[v6 |-> FALSE, src |-> <<192, 168, 0, 1>>, src_port |-> 801,
       dst |-> <<192, 168, 0, 2>>, dst_port |-> 2049],
      [v6 |-> FALSE, src |-> <<192, 168, 0, 2>>, src_port |-> 2049,
       dst |-> <<192, 168, 0, 1>>, dst_port |-> 801],
      [v6 |-> TRUE, src |-> <<171, 0, 171, 0, 171, 171, 171, 171>>, src_port |-> 801,
       dst |-> <<43981, 0, 0, 0, 0, 0, 0, 171>>, dst_port |-> 2049],
      [v6 |-> TRUE, src |-> <<171, 0, 0, 171, 171, 171, 171, 171>>, src_port |-> 801,
       dst |-> <<43981, 0, 0, 0, 0, 0, 0, 171>>, dst_port |-> 2049]>>

Streams == DOMAIN Tuples

StreamTable ==
    [sid \in Streams |->
        CHOOSE t \in Streams :
            /\ streamid(Tuples[t]) = streamid(Tuples[sid])
            /\ \A u \in Streams : streamid(Tuples[u]) = streamid(Tuples[sid]) => t <= u]

\* pktt._tcp_stream_map[streamid]: where the entry of the tuple is kept
StreamOf(sid) == StreamTable[sid]

(***************************************************************************)
(* TCP.__init__ after the fixed header: stream lookup, relative sequence   *)
(* number, retransmission test, payload decode                             *)
(***************************************************************************)
SYN == 2

\* 4294967296 in the code; the sequence numbers of the model are scaled down
\* so that a wrapped number stays within the integers of the model checker
SeqSpace == 65536

NewStream(seq_number) ==
    [present |-> TRUE, msfrag |-> << >>, frag_off |-> 0, last_seq |-> 0,
     seq_wrap |-> 0, seq_base |-> seq_number]

NoStream ==
    [present |-> FALSE, msfrag |-> << >>, frag_off |-> 0, last_seq |-> 0,
     seq_wrap |-> 0, seq_base |-> 0]

NoTcp == [present |-> FALSE, sid |-> 0, seq_number |-> 0, seq |-> 0, flags_raw |-> 0, length |-> 0]

HasFlag(flags_raw, bit) == (flags_raw \div bit) % 2 = 1

\* no segment is taken for a retransmission
IsRetransmissionOff(seq, last_seq) == FALSE

\* the retransmission test of TCP.__init__
IsRetransmission(seq, last_seq) == seq < last_seq

\* the end of TCP.__init__.  key: the entry of the stream in the stream map;
\* stream: the stream entry after the SYN reset and the wrap-around; seq: the
\* relative sequence number
tcp_segment(index, truncbytes, frame, streams, xmap, key, stream, seq) ==
    LET tcp == [present |-> TRUE, sid |-> frame.sid, seq_number |-> frame.seq_number,
                seq |-> seq, flags_raw |-> frame.flags_raw, length |-> Len(frame.payload)]
        \* p: what _decode_payload did
        after_payload(p) ==
            [tcp |-> tcp,
             streams |-> [streams EXCEPT ![key] =
                             IF tcp.length > 0 THEN [p.stream EXCEPT !.last_seq = seq]
                             ELSE p.stream],
             xmap |-> p.xmap, rpc |-> p.rpc, nfs |-> p.nfs, again |-> p.again,
             decoded |-> TRUE]
    IN IF IsRetransmission(seq, stream.last_seq)
       THEN [tcp |-> tcp, streams |-> [streams EXCEPT ![key] = stream],
             xmap |-> xmap,
             rpc |-> NoRpc, nfs |-> NoNfs, again |-> FALSE, decoded |-> FALSE]
       ELSE after_payload(decode_payload(index, truncbytes, tcp, stream, frame.payload, xmap))

\* TCP.__init__ after the stream id is built; key: the entry of the stream
\* id in the stream map
tcp_stream(index, truncbytes, frame, streams, xmap, key) ==
    LET s0 == IF streams[key].present THEN streams[key]
              ELSE NewStream(frame.seq_number)
        \* reset seq_base on SYN
        s1 == IF HasFlag(frame.flags_raw, SYN)
              THEN [s0 EXCEPT !.seq_base = frame.seq_number, !.last_seq = s0.seq_wrap]
              ELSE s0
        \* convert sequence numbers to relative numbers
        rel == frame.seq_number - s1.seq_base + s1.seq_wrap
    IN tcp_segment(index, truncbytes, frame, streams, xmap, key,
                   IF rel < 0 THEN [s1 EXCEPT !.seq_wrap = @ + SeqSpace] ELSE s1,
                   IF rel < 0 THEN rel + SeqSpace ELSE rel)

TCP_init(index, truncbytes, frame, streams, xmap) ==
    tcp_stream(index, truncbytes, frame, streams, xmap, StreamOf(frame.sid))

(***************************************************************************)
(* The capture file.  A frame is the record of a capture with the decoded  *)
(* fields of its fixed headers: eth_type, proto, the directional stream    *)
(* (source ip:port - destination ip:port) as sid, the raw sequence number, *)
(* the raw TCP flags, the captured TCP payload, and the captured and       *)
(* original lengths of the record header.  The file is the 24 byte global  *)
(* header followed by the records (16 byte record header + captured        *)
(* bytes); `stored` is the number of bytes of the record that are in the   *)
(* file, less than 16 + length_inc for a last record that is cut short.    *)
(***************************************************************************)
FILE_HDR == 24
REC_HDR == 16
ETH_HDR == 14
IP_HDR == 20
TCP_HDR == 20
LINKTYPE_ETHERNET == 1
ETH_IPV4 == 2048
ETH_IPV6 == 34525
IP6_HDR == 40
IPPROTO_TCP == 6

HDRS == ETH_HDR + IP_HDR + TCP_HDR

\* the length of the fixed IP header of a frame
IpHdr(frame) == IF frame.eth_type = ETH_IPV6 THEN IP6_HDR ELSE IP_HDR

\* file offset of the k-th record (k = 1..Len(file) + 1; the last is <EOF>)
RECURSIVE Off(_, _)
Off(file, k) == IF k <= 1 THEN FILE_HDR ELSE Off(file, k - 1) + file[k - 1].stored

EOF(file) == Off(file, Len(file) + 1)

\* every record is taken for whole, whatever number of its bytes is in the
\* file
IsRecordAny(file, offset) == \E k \in 1..Len(file) : Off(file, k) = offset

\* a record starts at the offset and the file holds its 16 header bytes and
\* its length_inc data bytes
IsRecord(file, offset) ==
    \E k \in 1..Len(file) :
        Off(file, k) = offset /\ file[k].stored = REC_HDR + file[k].length_inc

RecordAt(file, offset) == file[CHOOSE k \in 1..Len(file) : Off(file, k) = offset]

(***************************************************************************)
(* Packet object (packet/pkt.py): record plus the layers that decoded      *)
(***************************************************************************)
NoIndex == 0 - 1

\* no layer of the packet has a `data` attribute
NoData == [on |-> "", bytes |-> << >>]

\* self.pkt = None.  data: the layer that has the attribute `data` (record,
\* ethernet or ip) and the bytes it holds
NonePkt ==
    [valid |-> FALSE, index |-> NoIndex, length_inc |-> 0, length_orig |-> 0,
     ethernet |-> FALSE, ip |-> FALSE, tcp |-> NoTcp, rpc |-> NoRpc, nfs |-> NoNfs,
     NFSop |-> U(0), NFSidx |-> NoIndex, data |-> NoData]

\* self.pkt = Pkt()
NewPkt == [NonePkt EXCEPT !.valid = TRUE]

\* the rpc layer as kept on the packet (without the working buffer)
Layer(rpc) == [rpc EXCEPT !.d = << >>]

(***************************************************************************)
(* Pktt.next.  m is the packet trace object:                               *)
(*   fh (file is open), state, index, mindex, offset, boffset, pkt_map,    *)
(*   pkt, streams (_tcp_stream_map), xmap (_rpc_xid_map)                   *)
(* exc is what the call raised ("" when it returned the packet) and        *)
(* decoded tells whether the payload decode of the TCP layer was run.      *)
(***************************************************************************)
Raise(m, e) == [m EXCEPT !.exc = e, !.decoded = FALSE]

\* _getfh on the first read: offset after the global header, index 0
Open(m) == IF m.fh THEN m
           ELSE [m EXCEPT !.fh = TRUE, !.offset = FILE_HDR, !.index = 0,
                          !.pkt_map = <<FILE_HDR>>]

\* the layers of a record whose bytes were read: ETHERNET, IPv4 or IPv6,
\* TCP.  The payload of a frame is what follows the last header it has
Decode(m, frame) ==
    LET rec == [NewPkt EXCEPT !.length_inc = frame.length_inc,
                              !.length_orig = frame.length_orig]
        eth == [rec EXCEPT !.ethernet = TRUE]
        ip  == [eth EXCEPT !.ip = TRUE]
        \* self.data of the layer that decodes no payload
        raw(pkt, layer) == [pkt EXCEPT !.data = [on |-> layer, bytes |-> frame.payload]]
        \* t: what TCP(pktt) did
        tcp(t) == [m EXCEPT !.pkt = [ip EXCEPT !.tcp = t.tcp,
                                               !.rpc = Layer(t.rpc),
                                               !.nfs = t.nfs],
                            !.streams = t.streams,
                            !.xmap = t.xmap,
                            !.decoded = t.decoded,
                            !.offset = IF t.again THEN m.boffset ELSE @]
    IN IF frame.link_type # LINKTYPE_ETHERNET
       THEN [m EXCEPT !.pkt = raw(rec, "record"), !.decoded = FALSE]
       ELSE IF frame.length_inc < ETH_HDR THEN Raise([m EXCEPT !.pkt = rec], "error")
       ELSE IF frame.eth_type \notin {ETH_IPV4, ETH_IPV6}
       THEN [m EXCEPT !.pkt = raw(eth, "ethernet"), !.decoded = FALSE]
       ELSE IF frame.length_inc < ETH_HDR + IpHdr(frame)
       THEN Raise([m EXCEPT !.pkt = eth], "error")
       ELSE IF frame.proto # IPPROTO_TCP
       THEN [m EXCEPT !.pkt = raw(ip, "ip"), !.decoded = FALSE]
       ELSE IF frame.length_inc < ETH_HDR + IpHdr(frame) + TCP_HDR
       THEN Raise([m EXCEPT !.pkt = ip], "error")
       ELSE tcp(TCP_init(m.index, frame.length_orig - frame.length_inc, frame,
                         m.streams, m.xmap))

\* save the record index and increment the packet index; m3 is the object
\* after the layers of the record were decoded
record_index(m2, m3) ==
    IF m3.exc # "" THEN m3
    ELSE [m3 EXCEPT !.pkt.index = m2.index,
                    !.index = m2.index + 1,
                    !.mindex = IF m2.index + 1 > @ THEN m2.index + 1 ELSE @]

\* the read of the record at the file offset, with the file open
read_record(file, m2) ==
    LET frame == RecordAt(file, m2.offset)
    IN IF IsRecord(file, m2.offset)
       THEN record_index(m2, Decode([m2 EXCEPT !.offset = @ + REC_HDR + frame.length_inc], frame))
       ELSE IF m2.offset = 0
       THEN \* the global header read as a record header: the captured length
            \* is its time zone field, 0; ETHERNET fails on the empty data
            Raise([m2 EXCEPT !.offset = REC_HDR], "error")
       ELSE \* <EOF>, or a record header read from the middle of the global
            \* header whose length (a time stamp) runs past the end of the file
            Raise([m2 EXCEPT !.offset = EOF(file)], "StopIteration")

\* self.pkt = Pkt(); self.b_offset = self.offset; pkt_map.append; the file
\* is opened by the first read
next_start(m0) ==
    Open([m0 EXCEPT !.pkt = NewPkt, !.exc = "", !.boffset = m0.offset,
                    !.pkt_map = IF m0.state /\ m0.index >= Len(m0.pkt_map)
                                THEN Append(@, m0.offset) ELSE @])

next(file, m0) == read_record(file, next_start(m0))

(***************************************************************************)
(* Pktt.rewind                                                             *)
(***************************************************************************)
RECURSIVE rewind_loop(_, _, _)
rewind_loop(file, m, index) ==
    LET read(n) == IF n.exc # "" THEN n ELSE rewind_loop(file, n, index)
    IN IF m.index < index THEN read(next(file, m)) ELSE m

\* clear stream fragments
ClearStream(s) == [s EXCEPT !.last_seq = 0, !.frag_off = 0, !.msfrag = << >>]

\* rewind is allowed for every index reached so far, once the file is open
CanRewind_reached(m, index) == index >= 0 /\ Len(m.pkt_map) >= 1 /\ index <= m.mindex

CanRewind(m, index) == index >= 0 /\ index < Len(m.pkt_map)

rewind(file, m, index) ==
    IF CanRewind(m, index)
    THEN LET m1 == [m EXCEPT !.offset = m.pkt_map[1], !.index = 0,
                             !.streams = [s \in DOMAIN m.streams |->
                                            IF m.streams[s].present
                                            THEN ClearStream(m.streams[s]) ELSE m.streams[s]]]
         IN [rewind_loop(file, m1, index) EXCEPT !.exc = ""]
    ELSE m

(***************************************************************************)
(* Match expressions.  A leaf is LAYER.field == value; an expression is a  *)
(* leaf, `a and b` or `a or b`.  A leaf evaluates to "T", "F" or, when     *)
(* the evaluation raises, "X".                                             *)
(***************************************************************************)
Bool(b) == IF b THEN "T" ELSE "F"

\* Pktt._match: eval of self.pkt.<layer>.<field> == value
match_rpc(pkt, field, value) ==
    IF ~pkt.rpc.ok THEN "X"
    ELSE IF field = "xid" THEN Bool(pkt.rpc.xid = value)
    ELSE IF field = "type" THEN Bool(pkt.rpc.type = value)
    ELSE IF ~pkt.rpc.hasprog THEN "X"
    ELSE IF field = "program" THEN Bool(pkt.rpc.program = value)
    ELSE IF field = "version" THEN Bool(pkt.rpc.version = value)
    ELSE IF field = "procedure" THEN Bool(pkt.rpc.procedure = value)
    ELSE "X"

match_tcp(pkt, field, value) ==
    IF ~pkt.tcp.present THEN "X"
    ELSE IF field = "seq" THEN Bool(pkt.tcp.seq = value)
    ELSE IF field = "seq_number" THEN Bool(pkt.tcp.seq_number = value)
    ELSE IF field = "flags_raw" THEN Bool(pkt.tcp.flags_raw = value)
    ELSE "X"

\* _nfsopmap: the fields looked up on the compound itself
nfsopmap == {"status", "tag"}

\* self.pkt.nfs.<lhs>: ok is FALSE when the lookup raises (no NFS layer, or
\* status on a call)
nfs_field(nfs, lhs) ==
    IF ~nfs.present THEN [ok |-> FALSE, value |-> U(0)]
    ELSE IF lhs = "status" THEN [ok |-> ~nfs.isarg, value |-> nfs.status]
    ELSE [ok |-> TRUE, value |-> nfs.tag]

\* item.<lhs> on the item at position idx of argarray / resarray; `op` is
\* item.argop / item.resop.  Every result before the last one succeeded,
\* and the last one gave the compound its status.
item_field(nfs, idx, lhs) ==
    IF lhs = "op" \/ (lhs = "argop" /\ nfs.isarg) \/ (lhs = "resop" /\ ~nfs.isarg)
    THEN [ok |-> TRUE, value |-> nfs.ops[idx + 1]]
    ELSE IF lhs = "status" /\ ~nfs.isarg
    THEN [ok |-> TRUE, value |-> IF idx + 1 = Len(nfs.ops) THEN nfs.status ELSE U(0)]
    ELSE [ok |-> FALSE, value |-> U(0)]

item_holds(nfs, idx, lhs, rhs) ==
    item_field(nfs, idx, lhs).ok /\ item_field(nfs, idx, lhs).value = rhs

\* a search of the items that gives the last one that holds
nfs_items_last(nfs, lhs, rhs, idx) ==
    LET hold == {i \in idx..(Len(nfs.ops) - 1) : item_holds(nfs, i, lhs, rhs)}
    IN IF hold = {} THEN [ret |-> FALSE, NFSidx |-> NoIndex]
       ELSE [ret |-> TRUE, NFSidx |-> CHOOSE i \in hold : \A j \in hold : j <= i]

\* `for item in array`, from position idx on: an item whose comparison
\* raises is skipped
RECURSIVE nfs_items(_, _, _, _)
nfs_items(nfs, lhs, rhs, idx) ==
    IF idx >= Len(nfs.ops) THEN [ret |-> FALSE, NFSidx |-> NoIndex]
    ELSE IF item_holds(nfs, idx, lhs, rhs) THEN [ret |-> TRUE, NFSidx |-> idx]
    ELSE nfs_items(nfs, lhs, rhs, idx + 1)

\* Pktt._match_nfs on the NFS layer of the packet: what it returns and the
\* position it records (NoIndex: NFSop and NFSidx are not set)
_match_nfs(nfs, lhs, rhs) ==
    IF lhs \in nfsopmap
    THEN [ret |-> nfs_field(nfs, lhs).ok /\ nfs_field(nfs, lhs).value = rhs, NFSidx |-> NoIndex]
    ELSE IF ~nfs.present THEN [ret |-> FALSE, NFSidx |-> NoIndex]
    ELSE nfs_items(nfs, lhs, rhs, 0)

\* Pktt.match_nfs: the packet after the call, with the item found
match_nfs_pkt(pkt, r) ==
    IF r.NFSidx = NoIndex THEN pkt
    ELSE [pkt EXCEPT !.NFSop = pkt.nfs.ops[r.NFSidx + 1], !.NFSidx = r.NFSidx]

match_nfs(pkt, field, value) == Bool(_match_nfs(pkt.nfs, field, value).ret)

\* the packet after a leaf was evaluated on it
leaf_pkt(pkt, leaf) ==
    IF leaf.layer = "NFS" THEN match_nfs_pkt(pkt, _match_nfs(pkt.nfs, leaf.field, leaf.value))
    ELSE pkt

eval_leaf(pkt, leaf) ==
    IF leaf.layer = "RPC" THEN match_rpc(pkt, leaf.field, leaf.value)
    ELSE IF leaf.layer = "TCP" THEN match_tcp(pkt, leaf.field, leaf.value)
    ELSE match_nfs(pkt, leaf.field, leaf.value)

\* eval(pdata) of the converted expression, python `and` / `or`
eval_expr(pkt, expr) ==
    LET first(a) ==
            IF expr.kind = "leaf" THEN a
            ELSE IF expr.kind = "and" THEN (IF a = "T" THEN eval_leaf(pkt, expr.b) ELSE a)
            ELSE (IF a = "F" THEN eval_leaf(pkt, expr.b) ELSE a)
    IN first(eval_leaf(pkt, expr.a))

\* the packet after eval(pdata): b is called when a does not decide
expr_pkt(pkt, expr) ==
    IF expr.kind = "leaf" THEN leaf_pkt(pkt, expr.a)
    ELSE IF eval_leaf(pkt, expr.a) = (IF expr.kind = "and" THEN "T" ELSE "F")
    THEN leaf_pkt(leaf_pkt(pkt, expr.a), expr.b)
    ELSE leaf_pkt(pkt, expr.a)

(***************************************************************************)
(* Pktt.match.  maxindex is NoMax for None.  Result: the object, ret       *)
(* ("pkt": the matched packet is m.pkt, "None", or "raise": an exception   *)
(* other than StopIteration left next) and the packets the search looked   *)
(* at, in order, as <<frame index, outcome of the expression>>.            *)
(***************************************************************************)
NoMax == 0 - 1

\* `if maxindex and self.index > maxindex`
HitMax(maxindex, index) == maxindex # NoMax /\ maxindex # 0 /\ index > maxindex

RECURSIVE match_loop(_, _, _, _, _)
match_loop(file, m, expr, maxindex, scanned) ==
    LET \* v: what the expression gave on the packet
        matched(n, v, sc) ==
            IF v = "T" THEN [m |-> [n EXCEPT !.pkt = expr_pkt(@, expr)], ret |-> "pkt", scanned |-> sc]
            ELSE match_loop(file, n, expr, maxindex, sc)
        evaluated(n, v) == matched(n, v, Append(scanned, <<n.pkt.index, v>>))
        \* n: the object after next()
        read(n) ==
            IF n.exc = "StopIteration" THEN [m |-> n, ret |-> "None", scanned |-> scanned]
            ELSE IF n.exc # "" THEN [m |-> n, ret |-> "raise", scanned |-> scanned]
            ELSE IF HitMax(maxindex, n.index) THEN [m |-> n, ret |-> "None", scanned |-> scanned]
            ELSE evaluated(n, eval_expr(n.pkt, expr))
    IN read(next(file, m))

\* a match that goes back to where the search started even when it found a
\* packet
match_rewinds(file, m, expr, maxindex) ==
    LET save_index == m.index
        searched(r) ==
            IF r.ret = "raise" THEN r
            ELSE [r EXCEPT !.m = [rewind(file, r.m, save_index) EXCEPT
                                     !.pkt = IF r.ret = "pkt" THEN r.m.pkt ELSE NonePkt,
                                     !.exc = ""]]
    IN searched(match_loop(file, m, expr, maxindex, << >>))

\* r: what the search loop ended with; on no match the object goes back to
\* save_index
match_end(file, save_index, r) ==
    IF r.ret = "None"
    THEN [r EXCEPT !.m = [rewind(file, r.m, save_index) EXCEPT !.pkt = NonePkt, !.exc = ""]]
    ELSE r

match(file, m, expr, maxindex) ==
    match_end(file, m.index, match_loop(file, m, expr, maxindex, << >>))

(***************************************************************************)
(* Pktt.__getitem__.  ret is "pkt" (m.pkt is returned) or "IndexError".    *)
(***************************************************************************)
RECURSIVE getitem_loop(_, _, _, _)
getitem_loop(file, m, index, pkt) ==
    LET read(n) == IF n.exc # "" THEN [m |-> n, pkt |-> pkt]
                   ELSE getitem_loop(file, n, index, n.pkt)
    IN IF m.index <= index THEN read(next(file, m)) ELSE [m |-> m, pkt |-> pkt]

getitem(file, m, index) ==
    LET moved(r) == IF ~r.pkt.valid THEN [m |-> r.m, ret |-> "IndexError", pkt |-> NonePkt]
                    ELSE [m |-> r.m, ret |-> "pkt", pkt |-> r.pkt]
    IN IF index < 0 THEN [m |-> m, ret |-> "IndexError", pkt |-> NonePkt]
       ELSE IF m.pkt.valid /\ m.pkt.index = index THEN [m |-> m, ret |-> "pkt", pkt |-> m.pkt]
       ELSE moved(getitem_loop(file,
                               IF index < m.index /\ index < Len(m.pkt_map)
                               THEN rewind(file, m, index) ELSE m,
                               index, NonePkt))

(***************************************************************************)
(* Wire form of the records used as inputs (what _rpc_header and the       *)
(* compound decoder read back)                                             *)
(***************************************************************************)
LAST_FRAGMENT == 128

\* n < 65536 as a word
W(n) == <<0, 0, n \div 256, n % 256>>

\* record mark of a last fragment of n bytes (n < 65536)
Mark(n) == <<LAST_FRAGMENT, 0, n \div 256, n % 256>>

Zeros(n) == [k \in 1..n |-> 0]

RECURSIVE Flat(_)
Flat(ws) == IF ws = << >> THEN << >> ELSE Head(ws) \o Flat(Tail(ws))

\* NFSv4 COMPOUND call (program 100003, version 4, procedure 1), AUTH_NONE
CallBody(xid, ops) ==
    xid \o U(CALL) \o U(2) \o NfsProgramWord \o U(4) \o U(1)
        \o U(0) \o U(0) \o U(0) \o U(0) \o U(Len(ops)) \o Flat(ops)

CallRec(xid, ops) == Mark(Len(CallBody(xid, ops))) \o CallBody(xid, ops)

\* accepted reply with an AUTH_NONE verifier and a COMPOUND result
ReplyBody(xid, status, ops) ==
    xid \o U(REPLY) \o U(MSG_ACCEPTED) \o U(0) \o U(0) \o U(0)
        \o U(status) \o U(Len(ops)) \o Flat(ops)

ReplyRec(xid, status, ops) == Mark(Len(ReplyBody(xid, status, ops))) \o ReplyBody(xid, status, ops)

\* portmapper call (program 100000, version 2, procedure 3) with one word of
\* arguments, AUTH_NONE
PmapRec(xid) ==
    Mark(44) \o xid \o U(CALL) \o U(2) \o <<0, 1, 134, 160>> \o U(2) \o U(3)
        \o U(0) \o U(0) \o U(0) \o U(0) \o U(7)

\* credentials and verifiers: AUTH_NONE, AUTH_SYS with a machine name of
\* machine bytes and gids supplementary group ids, RPCSEC_GSS with an empty
\* context, the RPCSEC_GSS verifier with an empty token
AuthNone == U(0) \o U(0)

SysBody(machine, gids) ==
    U(0) \o W(machine) \o Zeros(Pad4(machine)) \o U(0) \o U(0) \o W(gids) \o Zeros(4 * gids)

AuthSys(machine, gids) ==
    U(AUTH_SYS) \o W(Len(SysBody(machine, gids))) \o SysBody(machine, gids)

GssCred(gss_proc, gss_service) ==
    U(RPCSEC_GSS) \o U(20) \o U(1) \o U(gss_proc) \o U(5) \o U(gss_service) \o U(0)

GssVerf == U(RPCSEC_GSS) \o U(0)

\* an RPC message: a call of procedure of version of program with the
\* credential cred, or an accepted reply (SUCCESS); verf is its verifier and
\* body the bytes after the RPC header
RpcCall(program, version, procedure, cred, verf, body) ==
    [type |-> CALL, program |-> program, version |-> version, procedure |-> procedure,
     cred |-> cred, verf |-> verf, body |-> body]

RpcReply(verf, body) ==
    [type |-> REPLY, program |-> U(0), version |-> 0, procedure |-> 0,
     cred |-> << >>, verf |-> verf, body |-> body]

RpcBody(xid, m) ==
    xid \o U(m.type)
        \o (IF m.type = CALL
            THEN U(2) \o m.program \o U(m.version) \o U(m.procedure) \o m.cred \o m.verf
            ELSE U(MSG_ACCEPTED) \o m.verf \o U(0))
        \o m.body

RpcRec(xid, m) == Mark(Len(RpcBody(xid, m))) \o RpcBody(xid, m)

\* a TCP/IPv4/Ethernet frame captured whole
Frame(sid, seq_number, flags_raw, payload) ==
    [link_type |-> LINKTYPE_ETHERNET, eth_type |-> ETH_IPV4, proto |-> IPPROTO_TCP, sid |-> sid,
     seq_number |-> seq_number, flags_raw |-> flags_raw, payload |-> payload,
     length_inc |-> HDRS + Len(payload), length_orig |-> HDRS + Len(payload),
     stored |-> REC_HDR + HDRS + Len(payload)]

\* a TCP/IPv6/Ethernet frame captured whole
Frame6(sid, seq_number, flags_raw, payload) ==
    [Frame(sid, seq_number, flags_raw, payload) EXCEPT
        !.eth_type = ETH_IPV6,
        !.length_inc = @ + IP6_HDR - IP_HDR, !.length_orig = @ + IP6_HDR - IP_HDR,
        !.stored = @ + IP6_HDR - IP_HDR]

\* a record of bytes whose headers, hdrs bytes long, end with a type that
\* has no decoder
RawFrame(link_type, eth_type, proto, hdrs, bytes) ==
    [Frame(1, 0, 0, bytes) EXCEPT
        !.link_type = link_type, !.eth_type = eth_type, !.proto = proto,
        !.length_inc = hdrs + Len(bytes), !.length_orig = hdrs + Len(bytes),
        !.stored = REC_HDR + hdrs + Len(bytes)]

\* the same frame captured with a snapshot length of snaplen bytes
Snap(frame, snaplen) ==
    IF frame.length_inc <= snaplen THEN frame
    ELSE [frame EXCEPT !.length_inc = snaplen, !.payload = Take(@, snaplen - HDRS),
                       !.stored = REC_HDR + snaplen]

\* the record of a frame of which the file holds the first n bytes only
Cut(frame, n) == [frame EXCEPT !.stored = n]

(***************************************************************************)
(* Inputs: the captures the reader is run on                               *)
(***************************************************************************)
MaxFrames == 3

OP_OPEN == 18
OP_WRITE == 38
PSH == 8
PSH_ACK == PSH + ACK_ONLY

X1 == <<0, 0, 16, 0>>
X2 == <<0, 0, 16, 1>>

A_SYN == Frame(1, 100, SYN, << >>)

A_CALL == Frame(1, 101, PSH_ACK, CallRec(X1, <<U(OP_OPEN)>>))

B_REPLY == Frame(2, 501, PSH_ACK, ReplyRec(X1, 0, <<U(OP_OPEN)>>))

\* a call in two segments: the RPC header and the count, then the operation
A_PART1 == Frame(1, 153, PSH_ACK, Take(CallRec(X1, <<U(OP_OPEN)>>), 48))

A_PART2 == Frame(1, 201, PSH_ACK, Drop(CallRec(X1, <<U(OP_OPEN)>>), 48))

\* snapshot length inside the TCP header
A_CUT == Snap(A_CALL, 40)

\* snapshot length inside the NFS payload
B_TRUNC == Snap(B_REPLY, 90)

\* the frames of the captures that every operation is run on
Alphabet == <<A_SYN, A_CALL, B_REPLY, A_PART1, A_CUT>>

\* segments without payload: an acknowledgment in sequence after A_PART1,
\* the same with FIN, and both with a sequence number below A_PART1
FIN == 1

A_ACK == Frame(1, 201, ACK_ONLY, << >>)

A_FIN == Frame(1, 201, FIN + ACK_ONLY, << >>)

A_OLD_ACK == Frame(1, 101, ACK_ONLY, << >>)

A_OLD_FIN == Frame(1, 101, FIN + ACK_ONLY, << >>)

\* four zero bytes in sequence after A_PART1, and after a gap
A_ZEROS == Frame(1, 201, PSH_ACK, Zeros(4))

A_GAP_ZEROS == Frame(1, 205, PSH_ACK, Zeros(4))

\* the call in two segments over IPv6, of the two clients
C_PART1 == Frame6(3, 153, PSH_ACK, Take(CallRec(X1, <<U(OP_OPEN)>>), 48))

C_PART2 == Frame6(3, 201, PSH_ACK, Drop(CallRec(X1, <<U(OP_OPEN)>>), 48))

D_PART1 == Frame6(4, 153, PSH_ACK, Take(CallRec(X1, <<U(OP_OPEN)>>), 48))

D_PART2 == Frame6(4, 201, PSH_ACK, Drop(CallRec(X1, <<U(OP_OPEN)>>), 48))

D_SYN == Frame6(4, 300, SYN, << >>)

\* frames whose type fields select no decoder: a record of a file with the
\* link type 113, an ARP frame, UDP over IPv4 and over IPv6, and a TCP
\* segment with "GET / HTTP/1.1" and two line ends
LINKTYPE_LINUX_SLL == 113
ETH_ARP == 2054
IPPROTO_UDP == 17

TextBytes == <<71, 69, 84, 32, 47, 32, 72, 84, 84, 80, 47, 49, 46, 49, 13, 10, 13, 10>>

L_COOKED == RawFrame(LINKTYPE_LINUX_SLL, 0, 0, 0, TextBytes)

E_ARP == RawFrame(LINKTYPE_ETHERNET, ETH_ARP, 0, ETH_HDR, TextBytes)

I_UDP == RawFrame(LINKTYPE_ETHERNET, ETH_IPV4, IPPROTO_UDP, ETH_HDR + IP_HDR, TextBytes)

I6_UDP == RawFrame(LINKTYPE_ETHERNET, ETH_IPV6, IPPROTO_UDP, ETH_HDR + IP6_HDR, TextBytes)

A_TEXT == Frame(1, 101, PSH_ACK, TextBytes)

\* all the frames that have a name
AllFrames ==
    Alphabet \o <<A_PART2, B_TRUNC, A_ACK, A_FIN, A_OLD_ACK, A_OLD_FIN, A_ZEROS, A_GAP_ZEROS,
                  C_PART1, C_PART2, D_PART1, D_PART2, D_SYN,
                  L_COOKED, E_ARP, I_UDP, I6_UDP, A_TEXT>>

\* the records that are cut into segments; the third, the fourth and the
\* fifth are two calls back to back
Records == <<CallRec(X1, <<U(OP_OPEN)>>),
             ReplyRec(X1, 0, <<U(OP_OPEN)>>),
             CallRec(X1, <<U(OP_OPEN)>>) \o CallRec(X2, <<U(OP_OPEN)>>),
             PmapRec(X1) \o PmapRec(X2),
             CallRec(X1, <<U(OP_OPEN)>>) \o PmapRec(X2)>>

\* bytes a+1..b of record r as one segment of stream 1, in sequence
Segment(r, a, b) == Frame(1, 101 + a, PSH_ACK, SubSeq(Records[r], a + 1, b))

\* a compound of the operations ops in one segment: the call on stream 1,
\* the reply with its status on stream 2
Compound(sid, seq_number, status, ops) ==
    Frame(sid, seq_number, PSH_ACK,
          IF sid = 1 THEN CallRec(X1, ops) ELSE ReplyRec(X1, status, ops))

\* the RPC message m with the xid X1 in one segment
Message(sid, seq_number, m) == Frame(sid, seq_number, PSH_ACK, RpcRec(X1, m))

\* a frame of a capture is named <<k>> (AllFrames[k]), <<k, n>> (the first n
\* bytes of the record of AllFrames[k]), <<r, a, b>>,
\* <<sid, seq_number, status, ops>> or <<sid, seq_number, m, 0, 0>>
FrameOf(d) ==
    IF Len(d) = 1 THEN AllFrames[d[1]]
    ELSE IF Len(d) = 2 THEN Cut(AllFrames[d[1]], d[2])
    ELSE IF Len(d) = 3 THEN Segment(d[1], d[2], d[3])
    ELSE IF Len(d) = 4 THEN Compound(d[1], d[2], d[3], d[4])
    ELSE Message(d[1], d[2], d[3])

Named(frame) == <<CHOOSE k \in 1..Len(AllFrames) : AllFrames[k] = frame>>

Whole(r) == <<r, 0, Len(Records[r])>>

Captures == UNION {[1..n -> {<<k>> : k \in 1..Len(Alphabet)}] : n \in 1..MaxFrames}

\* a call or a reply in three segments, at any two split points
SplitPoints ==
    {p \in {1, 2} \X (1..Len(Records[1])) \X (1..Len(Records[1])) :
        p[2] < p[3] /\ p[3] < Len(Records[p[1]])}

SplitCaptures ==
    {<<<<p[1], 0, p[2]>>, <<p[1], p[2], p[3]>>, <<p[1], p[3], Len(Records[p[1]])>>>> :
        p \in SplitPoints}

\* two records in one segment: first in the capture, or after other frames
PipelinedCaptures ==
    UNION {{<<Whole(r)>>, <<Whole(r), Named(B_REPLY)>>,
            <<Named(A_SYN), Whole(r), Named(B_REPLY)>>} : r \in {3, 4}}

\* a segment without payload on a stream that holds the start of a record,
\* on an idle stream and on a stream with a record offset
EmptySegments == {Named(A_ACK), Named(A_FIN), Named(A_OLD_ACK), Named(A_OLD_FIN), Named(A_SYN)}

EmptyCaptures ==
    UNION {{<<Named(A_PART1), e>>, <<Named(A_PART1), e, Named(A_PART2)>>,
            <<Named(A_SYN), Named(A_PART1), e>>, <<Named(A_CALL), e>>,
            <<Named(A_SYN), Named(A_CALL), e>>, <<Named(A_SYN), Whole(4), e>>,
            \* a call and the start of the next one in one segment
            <<<<3, 0, 100>>, e>>} :
              e \in EmptySegments}

\* the start of a record, then a segment that begins with an RPC header
ResyncCaptures ==
    {<<Named(A_PART1), Named(A_CALL)>>, <<Named(A_SYN), Named(A_PART1), Named(A_CALL)>>,
     <<Named(A_PART1), Named(A_PART1)>>, <<Named(A_PART1), Whole(3)>>,
     <<Named(A_PART1), Named(A_CALL), Named(B_REPLY)>>,
     <<Named(A_PART1), Named(A_ZEROS)>>, <<Named(A_PART1), Named(A_GAP_ZEROS)>>}

\* an NFS call and the first bytes of a second call in one segment, the
\* rest of the second call in the next one; a record in two segments
TailCuts == {56, 60, 96}

CompletedCaptures ==
    {<<<<r, 0, n>>, <<r, n, Len(Records[r])>>>> : r \in {3, 5}, n \in TailCuts}
        \cup {<<Named(A_SYN), <<r, 0, n>>, <<r, n, Len(Records[r])>>>> : r \in {3, 5}, n \in TailCuts}
        \cup {<<<<4, 0, 48>>, <<4, 48, 96>>>>, <<Named(A_SYN), Whole(5)>>, <<Named(A_SYN), Whole(4)>>}

\* the captures that are read from the first frame to the last
SeqCaptures ==
    SplitCaptures \cup PipelinedCaptures \cup EmptyCaptures \cup ResyncCaptures
        \cup CompletedCaptures
        \cup {<<Named(A_PART1), Named(A_PART2)>>, <<Named(A_CALL), Named(B_TRUNC)>>,
              <<Named(A_CALL), Named(B_REPLY)>>, <<Named(A_PART1), Named(B_REPLY)>>}

\* where the last record of a file is cut: inside the record header, after
\* it, and inside the data
CutPoints == {8, REC_HDR, REC_HDR + 30}

\* captures whose last record is cut short, and whole captures
TailCaptures ==
    {Append(c, <<k, n>>) : c \in {<< >>} \cup {d \in Captures : Len(d) < MaxFrames},
                           k \in 1..Len(Alphabet), n \in CutPoints}
        \cup {d \in Captures : Len(d) < MaxFrames}

Leaf(layer, field, value) == [layer |-> layer, field |-> field, value |-> value]

\* "NFS.argop == 18"
E_ARGOP == [kind |-> "leaf", a |-> Leaf("NFS", "argop", U(OP_OPEN)), b |-> Leaf("NFS", "argop", U(OP_OPEN))]

\* "RPC.xid == 4096 and NFS.resop == 18"
E_XID_RESOP == [kind |-> "and", a |-> Leaf("RPC", "xid", X1), b |-> Leaf("NFS", "resop", U(OP_OPEN))]

\* "NFS.argop == 38": no packet of the captures has it
E_NEVER == [kind |-> "leaf", a |-> Leaf("NFS", "argop", U(OP_WRITE)), b |-> Leaf("NFS", "argop", U(OP_WRITE))]

Exprs == {E_ARGOP, E_XID_RESOP, E_NEVER}

\* "RPC.xid == 4096 or TCP.flags_raw == 2"
E_XID_OR_SYN == [kind |-> "or", a |-> Leaf("RPC", "xid", X1), b |-> Leaf("TCP", "flags_raw", SYN)]

\* "TCP.flags_raw == 2 or RPC.xid == 4096"
E_SYN_OR_XID == [kind |-> "or", a |-> Leaf("TCP", "flags_raw", SYN), b |-> Leaf("RPC", "xid", X1)]

\* "RPC.xid == 4096 and TCP.flags_raw == 24"
E_XID_AND_PSH == [kind |-> "and", a |-> Leaf("RPC", "xid", X1), b |-> Leaf("TCP", "flags_raw", PSH_ACK)]

LayerExprs == {E_XID_OR_SYN, E_SYN_OR_XID, E_XID_AND_PSH}

OP_PUTFH == 22
\* a compound status other than NFS4_OK
ErrStatus == 1
MaxOps == 3

\* the operation arrays of the compounds: up to MaxOps of OPEN and PUTFH
OpLists == UNION {[1..n -> {U(OP_OPEN), U(OP_PUTFH)}] : n \in 0..MaxOps}

\* a SYN, a compound call and its reply
CompoundCaptures ==
    {<<Named(A_SYN), <<1, 101, 0, a>>, <<2, 501, s, r>>>> :
        a \in OpLists, s \in {0, ErrStatus}, r \in OpLists}

\* programs: NFS, the bounds of the transient range and their neighbours,
\* the portmapper
Programs ==
    {NfsProgramWord, <<64, 0, 0, 0>>, <<95, 255, 255, 255>>, <<63, 255, 255, 255>>,
     <<96, 0, 0, 0>>, <<0, 1, 134, 160>>}

Versions == {1, 3, 4}

Procedures == {0, 1, 2}

\* a compound of one operation as arguments and as result
ArgsBody == U(1) \o U(OP_OPEN)

ResBody == U(0) \o U(1) \o U(OP_OPEN)

\* lengths of machine names and numbers of supplementary group ids
Machines == {0, 4, MaxMachine, MaxMachine + 1}

GidCounts == {0, MaxGids, MaxGids + 1}

RpcCalls ==
    {RpcCall(p, v, c, AuthNone, AuthNone, ArgsBody) :
        p \in Programs, v \in Versions, c \in Procedures}
    \cup {RpcCall(NfsProgramWord, 4, 1, AuthSys(n, g), AuthNone, ArgsBody) :
              n \in Machines, g \in GidCounts}

\* a call and an accepted reply with its xid
RpcCaptures ==
    {<< <<1, 101, c, 0, 0>>, <<2, 501, RpcReply(AuthNone, ResBody), 0, 0>> >> : c \in RpcCalls}

\* "NFS.<field> == <value>"
NfsLeaf(field, value) ==
    [kind |-> "leaf", a |-> Leaf("NFS", field, value), b |-> Leaf("NFS", field, value)]

\* NFS.argop == 22, NFS.resop == 22, NFS.op == 18, NFS.status == 0,
\* NFS.status == 1, NFS.tag == ''
NfsExprs ==
    {NfsLeaf("argop", U(OP_PUTFH)), NfsLeaf("resop", U(OP_PUTFH)), NfsLeaf("op", U(OP_OPEN)),
     NfsLeaf("status", U(0)), NfsLeaf("status", U(ErrStatus)), NfsLeaf("tag", << >>)}

MaxArg == 3

MaxMaxIndex == 1

MaxIndexes == {NoMax} \cup 0..MaxMaxIndex

(***************************************************************************)
(* Pktt._getfh.  A trace file on disk is its st_size, whether it is a gzip *)
(* stream, and the bytes a reader gets from it (from the gzip stream when  *)
(* it is one): `head`, the first 4 of them or fewer, and `rest`, the       *)
(* number of bytes after the head.  The result of _getfh is                *)
(*   opened      self.fh is set                                            *)
(*   header_rec  "<" for '<IIII', ">" for '>IIII', "" when not set         *)
(*   exc         the message of the exception raised, "" for none          *)
(*   idents      the values self.ident was compared with the magic at      *)
(*   offset      self.offset                                               *)
(***************************************************************************)
\* '\324\303\262\241'
MAGIC_LE == <<212, 195, 178, 161>>

\* '\241\262\303\324'
MAGIC_BE == <<161, 178, 195, 212>>

\* the first 4 bytes of a gzip stream as the plain file handle returns them
GZIP_ID == <<31, 139, 8, 0>>

\* a reader that gets the bytes of the trace out of a gzip stream without
\* the file having been wrapped
read_ident_through(tf, iszip) == tf.head

\* try: self.ident = self._read(4) / except: self.ident = "".  The read of
\* gzip.GzipFile raises on a file that is no gzip stream
read_ident(tf, iszip) ==
    IF iszip THEN (IF tf.gzip THEN tf.head ELSE << >>)
    ELSE IF tf.gzip THEN GZIP_ID ELSE tf.head

\* while self.header_fmt is None
RECURSIVE getfh_loop(_, _, _)
getfh_loop(tf, iszip, idents) ==
    LET compared(ident) ==
            IF ident = MAGIC_LE
            THEN [opened |-> TRUE, header_rec |-> "<", exc |-> "",
                  idents |-> Append(idents, ident), offset |-> Len(ident)]
            ELSE IF ident = MAGIC_BE
            THEN [opened |-> TRUE, header_rec |-> ">", exc |-> "",
                  idents |-> Append(idents, ident), offset |-> Len(ident)]
            ELSE IF iszip
            THEN [opened |-> TRUE, header_rec |-> "", exc |-> "Not a tcpdump file",
                  idents |-> Append(idents, ident), offset |-> Len(ident)]
            ELSE getfh_loop(tf, TRUE, Append(idents, ident))
    IN compared(read_ident(tf, iszip))

\* struct.unpack(self.header_fmt, self._read(20))
getfh_header(tf, r) ==
    IF r.exc # "" THEN r
    ELSE IF tf.rest < FILE_HDR - 4 THEN [r EXCEPT !.exc = "struct.error", !.offset = @ + tf.rest]
    ELSE [r EXCEPT !.offset = @ + FILE_HDR - 4]

getfh(tf) ==
    IF tf.size = 0
    THEN [opened |-> FALSE, header_rec |-> "", exc |-> "Packet trace file is empty",
          idents |-> << >>, offset |-> 0]
    ELSE getfh_header(tf, getfh_loop(tf, FALSE, << >>))

\* a little endian trace file that holds the records of a capture
TraceFileOf(frames) ==
    [size |-> EOF(frames), gzip |-> FALSE, head |-> MAGIC_LE, rest |-> EOF(frames) - 4]

(***************************************************************************)
(* Unpack (packet/unpack.py): the working buffer and the offset pointer    *)
(***************************************************************************)
\* Unpack(data)
NewUnpack(data) == [data |-> data, offset |-> 0]

\* data[a:b] of a python string, 0 <= a
Slice(d, a, b) == Take(Drop(d, a), b - a)

\* Unpack.read(size, pad): the object after the call and the bytes returned
read(u, size, pad) ==
    [u |-> [u EXCEPT !.offset = @ + size
                        + (IF pad > 0 THEN ((size + pad - 1) \div pad) * pad - size ELSE 0)],
     buf |-> Slice(u.data, u.offset, u.offset + size)]

\* Unpack.seek(offset)
seek(u, o) == [u EXCEPT !.offset = IF o > Len(u.data) THEN Len(u.data) ELSE o]

\* Unpack.append(data)
append(u, data) == [u EXCEPT !.data = @ \o data]

\* Unpack.getbytes(): self._data[self._offset:]
getbytes(u) == Drop(u.data, u.offset)

\* an insert that keeps the bytes before the offset pointer
insert_keeps(u, data) == [data |-> data \o u.data, offset |-> 0]

\* Unpack.insert(data)
insert(u, data) == [data |-> data \o Drop(u.data, u.offset), offset |-> 0]

\* the unsigned integer of 4 bytes in network order
BigEndian(buf) == ((buf[1] * 256 + buf[2]) * 256 + buf[3]) * 256 + buf[4]

\* Unpack.unpack_uint: struct.unpack raises struct.error on a string that
\* is not of 4 bytes, after the read
unpack_uint(u) ==
    LET unpacked(r) ==
            IF Len(r.buf) = 4 THEN [u |-> r.u, value |-> BigEndian(r.buf), exc |-> ""]
            ELSE [u |-> r.u, value |-> 0, exc |-> "struct.error"]
    IN unpacked(read(u, 4, 0))

\* Unpack.unpack_opaque(maxcount)
unpack_opaque(u, maxcount) ==
    LET sized(r) ==
            IF r.exc # "" THEN [u |-> r.u, buf |-> << >>, exc |-> r.exc]
            ELSE IF maxcount > 0 /\ r.value > maxcount
            THEN [u |-> r.u, buf |-> << >>, exc |-> "Opaque exceeds maximum length"]
            ELSE [u |-> read(r.u, r.value, 4).u, buf |-> read(r.u, r.value, 4).buf, exc |-> ""]
    IN sized(unpack_uint(u))

(***************************************************************************)
(* Pktt.escape.  A string is the sequence of its byte values.              *)
(***************************************************************************)
\* repr(data)[0]: double quotes when data has a single quote and no double
\* quote
repr_quote(data) ==
    IF (\E i \in 1..Len(data) : data[i] = Chr.squote)
       /\ ~(\E i \in 1..Len(data) : data[i] = Chr.dquote)
    THEN Chr.dquote ELSE Chr.squote

\* repr of one character inside the quotes q
repr_char(c, q) ==
    IF c = Chr.bslash \/ c = q THEN <<Chr.bslash, c>>
    ELSE IF c = Chr.tab THEN <<Chr.bslash, Chr.t>>
    ELSE IF c = Chr.newline THEN <<Chr.bslash, Chr.n>>
    ELSE IF c = Chr.cr THEN <<Chr.bslash, Chr.r>>
    ELSE IF c < 32 \/ c >= 127
    THEN <<Chr.bslash, Chr.x, HexDigits[(c \div 16) + 1], HexDigits[(c % 16) + 1]>>
    ELSE <<c>>

\* repr(data)[1:-1]
repr_body(data, q) == Flat([i \in 1..Len(data) |-> repr_char(data[i], q)])

\* re.sub of the one character c by the text repl
sub_char(c, repl, string) ==
    Flat([i \in 1..Len(string) |-> IF string[i] = c THEN repl ELSE <<string[i]>>])

\* an escape that leaves the quotes of repr as they are
escape_keeps_quotes(data) ==
    sub_char(Chr.bslash, <<Chr.bslash, Chr.bslash>>, repr_body(data, repr_quote(data)))

\* Pktt.escape: the replacement \x22 (\x27) is the four characters, x22
\* (x27) the last three: repr has put the backslash
escape(data) ==
    LET x22 == <<Chr.x, Chr.two, Chr.two>>
        x27 == <<Chr.x, Chr.two, Chr.seven>>
        dquote == IF repr_quote(data) = Chr.dquote THEN x22 ELSE <<Chr.bslash>> \o x22
        squote == IF repr_quote(data) = Chr.dquote THEN <<Chr.bslash>> \o x27 ELSE x27
    IN sub_char(Chr.bslash, <<Chr.bslash, Chr.bslash>>,
                sub_char(Chr.squote, squote,
                         sub_char(Chr.dquote, dquote, repr_body(data, repr_quote(data)))))

\* re.sub(r'\\\\', r'\\', expr): every two backslashes, from the left, give one
RECURSIVE undouble(_)
undouble(expr) ==
    IF Len(expr) < 2 THEN expr
    ELSE IF expr[1] = Chr.bslash /\ expr[2] = Chr.bslash
    THEN <<Chr.bslash>> \o undouble(Tail(Tail(expr)))
    ELSE <<expr[1]>> \o undouble(Tail(expr))

\* eval of a string literal: expr[1] is the quote, i the position that is
\* read, value what was read so far.  ok is FALSE when expr is not one
\* literal (no closing quote, text after it, a line end inside, a bad \x);
\* the data have no digit after a backslash, so no octal escape
RECURSIVE eval_literal(_, _, _)
eval_literal(expr, i, value) ==
    LET bad == [ok |-> FALSE, value |-> << >>]
        c == expr[i + 1]
    IN IF i > Len(expr) THEN bad
       ELSE IF expr[i] = expr[1]
       THEN (IF i = Len(expr) THEN [ok |-> TRUE, value |-> value] ELSE bad)
       ELSE IF expr[i] = Chr.newline \/ expr[i] = Chr.nul THEN bad
       ELSE IF expr[i] # Chr.bslash THEN eval_literal(expr, i + 1, Append(value, expr[i]))
       ELSE IF i + 1 > Len(expr) THEN bad
       ELSE IF c \in {Chr.bslash, Chr.squote, Chr.dquote}
       THEN eval_literal(expr, i + 2, Append(value, c))
       ELSE IF c = Chr.n THEN eval_literal(expr, i + 2, Append(value, Chr.newline))
       ELSE IF c = Chr.t THEN eval_literal(expr, i + 2, Append(value, Chr.tab))
       ELSE IF c = Chr.r THEN eval_literal(expr, i + 2, Append(value, Chr.cr))
       ELSE IF c = Chr.x
       THEN (IF i + 3 <= Len(expr) /\ IsHex(expr[i + 2]) /\ IsHex(expr[i + 3])
             THEN eval_literal(expr, i + 4,
                               Append(value, 16 * HexVal(expr[i + 2]) + HexVal(expr[i + 3])))
             ELSE bad)
       ELSE eval_literal(expr, i + 2, value \o <<Chr.bslash, c>>)

(***************************************************************************)
(* State                                                                   *)
(***************************************************************************)
VARIABLES file, fh, state, index, mindex, offset, boffset, pkt_map, pkt,
          streams, xmap, op, live, findex, rotated, tfile, header_rec, cursor,
          input, output

vars == <<file, fh, state, index, mindex, offset, boffset, pkt_map, pkt,
          streams, xmap, op, live, findex, rotated, tfile, header_rec, cursor,
          input, output>>

\* the packet trace object as one value
Self ==
    [fh |-> fh, state |-> state, index |-> index, mindex |-> mindex, offset |-> offset,
     boffset |-> boffset, pkt_map |-> pkt_map, pkt |-> pkt, streams |-> streams,
     xmap |-> xmap, exc |-> "", decoded |-> FALSE]

Fields(m) ==
    /\ fh' = m.fh
    /\ state' = m.state
    /\ index' = m.index
    /\ mindex' = m.mindex
    /\ offset' = m.offset
    /\ boffset' = m.boffset
    /\ pkt_map' = m.pkt_map
    /\ pkt' = m.pkt
    /\ streams' = m.streams
    /\ xmap' = m.xmap
    /\ header_rec' = IF m.fh THEN getfh(tfile').header_rec ELSE header_rec

\* the call leaves the object as m; it reads the one trace file
Becomes(m) ==
    UNCHANGED <<file, live, findex, rotated, tfile, cursor, input, output>> /\ Fields(m)

\* what the last call was, what it returned and what it went through
Op(name, arg, expr, ret, ret_pkt, exc, decoded, scanned) ==
    [name |-> name, arg |-> arg, expr |-> expr, ret |-> ret, ret_index |-> ret_pkt.index,
     exc |-> exc, decoded |-> decoded, scanned |-> scanned, start |-> index]

\* Pktt.__init__
NewPktt ==
    [fh |-> FALSE, state |-> TRUE, index |-> 0, mindex |-> 0, offset |-> 0, boffset |-> 0,
     pkt_map |-> << >>, pkt |-> NonePkt, streams |-> [s \in Streams |-> NoStream],
     xmap |-> EmptyMap, exc |-> "", decoded |-> FALSE]

InitSelf ==
    /\ fh = NewPktt.fh
    /\ state = NewPktt.state
    /\ index = NewPktt.index
    /\ mindex = NewPktt.mindex
    /\ offset = NewPktt.offset
    /\ boffset = NewPktt.boffset
    /\ pkt_map = NewPktt.pkt_map
    /\ pkt = NewPktt.pkt
    /\ streams = NewPktt.streams
    /\ xmap = NewPktt.xmap
    /\ op = [name |-> "init", arg |-> 0, expr |-> E_NEVER, ret |-> "", ret_index |-> NoIndex,
             exc |-> "", decoded |-> FALSE, scanned |-> << >>, start |-> 0]

\* the records of the capture file
File == [k \in 1..Len(file) |-> FrameOf(file[k])]

\* what a function of the modules was last applied to (input) and what it
\* gave (output)
NoOutput == [fn |-> "none"]

\* no Unpack object is in use and no function was called
NoCall == cursor = NewUnpack(<< >>) /\ input = << >> /\ output = NoOutput

\* Pktt(tfile): live=False; no other trace file is looked for.  tfile is a
\* little endian trace file
NotLive ==
    /\ live = FALSE /\ findex = 0 /\ rotated = << >>
    /\ tfile = TraceFileOf(File)
    /\ header_rec = ""
    /\ NoCall

Init == file \in Captures /\ InitSelf /\ NotLive

\* pkt = x.next()
DoNext ==
    \E m \in {next(File, Self)} :
        /\ Becomes([m EXCEPT !.exc = ""])
        /\ op' = Op("next", 0, E_NEVER, IF m.exc = "" THEN "pkt" ELSE "raise",
                    IF m.exc = "" THEN m.pkt ELSE NonePkt, m.exc, m.decoded, << >>)

\* x.rewind(i)
DoRewind(i) ==
    /\ Becomes(rewind(File, Self, i))
    /\ op' = Op("rewind", i, E_NEVER, IF CanRewind(Self, i) THEN "True" ELSE "False",
                NonePkt, "", FALSE, << >>)

\* pkt = x.match(expr, maxindex)
DoMatch(expr, maxindex) ==
    \E r \in {match(File, Self, expr, maxindex)} :
        /\ Becomes([r.m EXCEPT !.exc = ""])
        /\ op' = Op("match", maxindex, expr, r.ret,
                    IF r.ret = "pkt" THEN r.m.pkt ELSE NonePkt,
                    IF r.ret = "raise" THEN r.m.exc ELSE "", FALSE, r.scanned)

\* pkt = x[i]
DoGetItem(i) ==
    \E r \in {getitem(File, Self, i)} :
        /\ Becomes([r.m EXCEPT !.exc = ""])
        /\ op' = Op("getitem", i, E_NEVER, r.ret, r.pkt, "", FALSE, << >>)

Next ==
    \/ DoNext
    \/ \E i \in (0 - 1)..MaxArg : DoRewind(i)
    \/ \E e \in Exprs, x \in MaxIndexes : DoMatch(e, x)
    \/ \E i \in (0 - 1)..MaxArg : DoGetItem(i)

Spec == Init /\ [][Next]_vars

(***************************************************************************)
(* Reading a capture from its first frame to its last with next()          *)
(***************************************************************************)
InitSeq == file \in SeqCaptures /\ InitSelf /\ NotLive

NextSeq == DoNext

SpecSeq == InitSeq /\ [][NextSeq]_vars

(***************************************************************************)
(* Reading, going back to the first frame and reading again                *)
(***************************************************************************)
NextReplay == DoNext \/ DoRewind(0)

SpecReplay == Init /\ [][NextReplay]_vars

(***************************************************************************)
(* Reading a capture whose last record may be cut short                    *)
(***************************************************************************)
InitTail == file \in TailCaptures /\ InitSelf /\ NotLive

NextTail == DoNext

SpecTail == InitTail /\ [][NextTail]_vars

(***************************************************************************)
(* Searching with expressions over two layers                              *)
(***************************************************************************)
NextLayers == \E e \in LayerExprs : DoMatch(e, NoMax)

SpecLayers == Init /\ [][NextLayers]_vars

(***************************************************************************)
(* Reading captures of one call and its reply, over programs, versions,    *)
(* procedures and credentials                                              *)
(***************************************************************************)
InitRpc == file \in RpcCaptures /\ InitSelf /\ NotLive

NextRpc == DoNext

SpecRpc == InitRpc /\ [][NextRpc]_vars

(***************************************************************************)
(* Matches of one NFS leaf on compounds of several operations              *)
(***************************************************************************)
InitNfs == file \in CompoundCaptures /\ InitSelf /\ NotLive

NextNfs ==
    \/ DoNext
    \/ \E e \in NfsExprs : DoMatch(e, NoMax)

SpecNfs == InitNfs /\ [][NextNfs]_vars

(***************************************************************************)
(* Opening a trace file: _getfh on a new object                            *)
(***************************************************************************)
\* the first bytes of the files that are opened: the two magic numbers, a
\* magic number with its last byte changed, the magic number of another
\* capture format, zeros, the start of a gzip stream, and files shorter
\* than 4 bytes
Heads ==
    {MAGIC_LE, MAGIC_BE, <<212, 195, 178, 160>>, <<77, 60, 178, 161>>, <<10, 13, 13, 10>>,
     <<0, 0, 0, 0>>, GZIP_ID, <<212, 195, 178>>, <<161>>, << >>}

\* numbers of bytes after the first 4: less than the rest of the global
\* header, the rest of the global header, and more
Rests == {0, FILE_HDR - 5, FILE_HDR - 4, FILE_HDR - 4 + REC_HDR + HDRS}

\* size of the gzip stream that holds n bytes
GzipSize(n) == 20 + n

TraceFile(z, h, r) ==
    [size |-> IF z THEN GzipSize(Len(h) + r) ELSE Len(h) + r, gzip |-> z, head |-> h, rest |-> r]

TraceFiles ==
    {TraceFile(z, h, r) : z \in BOOLEAN, h \in {g \in Heads : Len(g) = 4}, r \in Rests}
        \cup {TraceFile(z, h, 0) : z \in BOOLEAN, h \in Heads}

\* fh = x._getfh() on an object whose file is not open
DoGetfh ==
    /\ ~fh /\ ~live
    /\ \E r \in {getfh(tfile)} :
           /\ fh' = r.opened
           /\ offset' = r.offset
           /\ header_rec' = r.header_rec
           /\ index' = IF r.exc = "" THEN 0 ELSE index
           /\ pkt_map' = IF r.exc = "" THEN <<r.offset>> ELSE pkt_map
           /\ op' = Op("_getfh", 0, E_NEVER, IF r.exc = "" THEN "fh" ELSE "raise",
                       NonePkt, r.exc, FALSE, r.idents)
    /\ UNCHANGED <<file, state, mindex, boffset, pkt, streams, xmap, live, findex, rotated,
                   tfile, cursor, input, output>>

InitOpen ==
    /\ file = << >>
    /\ InitSelf
    /\ live = FALSE /\ findex = 0 /\ rotated = << >>
    /\ tfile \in TraceFiles
    /\ header_rec = ""
    /\ NoCall

NextOpen == DoGetfh

SpecOpen == InitOpen /\ [][NextOpen]_vars

(***************************************************************************)
(* Pktt.next on an object constructed with live=True.  `file` is the trace *)
(* file the object reads (self.tfile) and `rotated` the files <base>1,     *)
(* <base>2, ... that are on disk.  A read that is short with no next file  *)
(* on disk polls for ever: the call does not return and is no step.  Every *)
(* file holds whole records, and the reads that are followed are those at  *)
(* the start of a record or at <EOF>.                                      *)
(***************************************************************************)
\* os.path.isfile(tracefile) for tracefile = "%s%d" % (self.bfile, self.findex+1)
NextFileExists(files, n) == n + 1 <= Len(files)

\* self.__init__(tracefile, live=self.live): the attributes the constructor
\* sets are set again; _rpc_xid_map is not one of them
reinit(m) == [NewPktt EXCEPT !.xmap = m.xmap]

\* _read(16) at <EOF> with the next file on disk: the object is initialised
\* again, _getfh opens the next file and the loop reads the header of its
\* first record; back in next(), self.pkt is the None of __init__ and
\* `self.pkt.record = Record(...)` raises AttributeError
switch_file(m) ==
    Raise([Open(reinit(m)) EXCEPT !.offset = @ + REC_HDR], "AttributeError")

\* m1: the object when next() calls _read(16)
read_live(cur, m1) ==
    IF IsRecord(cur, m1.offset) THEN read_record(cur, m1) ELSE switch_file(m1)

next_live(cur, m0) == read_live(cur, next_start(m0))

\* the first read of next() returns: a record is at the offset, or the read
\* is at <EOF> and the next file is on disk
Returns(cur, files, n, m1) ==
    \/ IsRecord(cur, m1.offset)
    \/ m1.offset = EOF(cur) /\ NextFileExists(files, n)

\* the read of next() switches to the next file
Switches(cur, m1) == ~IsRecord(cur, m1.offset)

\* pkt = x.next() for x = Pktt(tfile, live=True)
DoNextLive ==
    /\ live
    /\ Returns(File, rotated, findex, next_start(Self))
    /\ file' = IF Switches(File, next_start(Self)) THEN rotated[findex + 1] ELSE file
    /\ findex' = IF Switches(File, next_start(Self)) THEN findex + 1 ELSE findex
    /\ tfile' = TraceFileOf([k \in 1..Len(file') |-> FrameOf(file'[k])])
    /\ UNCHANGED <<live, rotated, cursor, input, output>>
    /\ \E m \in {next_live(File, Self)} :
           /\ Fields([m EXCEPT !.exc = ""])
           /\ op' = Op("next", 0, E_NEVER, IF m.exc = "" THEN "pkt" ELSE "raise",
                       IF m.exc = "" THEN m.pkt ELSE NonePkt, m.exc, m.decoded, << >>)

\* the trace files tcpdump -C has written after the first
RotatedFiles == {<< >>} \cup {<<c>> : c \in {d \in Captures : Len(d) = 1}}

InitLive ==
    /\ file \in Captures
    /\ InitSelf
    /\ live = TRUE
    /\ findex = 0
    /\ rotated \in RotatedFiles
    /\ tfile = TraceFileOf(File)
    /\ header_rec = ""
    /\ NoCall

NextLive == DoNextLive

SpecLive == InitLive /\ [][NextLive]_vars

(***************************************************************************)
(* match                                                                   *)
(***************************************************************************)
\* C1: a failed match returns None and leaves the packet index, the
\* reassembly state of every stream and the pending-call map as they were
\* immediately before the call.
C1_FailedMatchRestores ==
    [][op'.name = "match" /\ op'.ret = "None" =>
          /\ index' = index
          /\ \A s \in Streams : streams[s].present => streams'[s] = streams[s]
          /\ xmap' = xmap]_vars

\* C2: a successful match looked at the frames from the index held at call
\* time on, one by one, and returns the first of them that satisfies the
\* expression; on return the index is that packet's frame index + 1.
C2_FirstMatch ==
    op.name = "match" /\ op.ret = "pkt" =>
        LET n == Len(op.scanned)
        IN /\ n >= 1
           /\ \A k \in 1..n : op.scanned[k][1] = op.start + k - 1
           /\ \A k \in 1..(n - 1) : op.scanned[k][2] # "T"
           /\ op.scanned[n][2] = "T"
           /\ op.ret_index = op.scanned[n][1]
           /\ pkt.index = op.ret_index
           /\ eval_expr(pkt, op.expr) = "T"
           /\ index = op.ret_index + 1

\* a match on the xid of a call and a result operation went past the call
\* and returned the reply
C2_Witness ==
    /\ op.name = "match" /\ op.ret = "pkt" /\ op.expr = E_XID_RESOP
    /\ Len(op.scanned) >= 2
    /\ pkt.rpc.type = U(REPLY)
    /\ index = pkt.index + 1

(***************************************************************************)
(* rewind(0) and replay                                                    *)
(***************************************************************************)
\* the packet of frame index n when capture f is read by a new object with
\* next() calls alone
RECURSIVE read_to(_, _, _, _)
read_to(f, m, n, fuel) ==
    IF fuel = 0 THEN NonePkt
    ELSE LET r == next(f, m)
         IN IF r.exc = "StopIteration" THEN NonePkt
            ELSE IF r.exc = "" /\ r.pkt.index = n THEN r.pkt
            ELSE read_to(f, [r EXCEPT !.exc = ""], n, fuel - 1)

Sequential(f, n) == read_to(f, NewPktt, n, Len(f) + Len(f) + 1)

\* C3: the layers of frame N decoded after rewind(0) and a replay up to N
\* are those decoded when N was reached the first time by next() calls
\* alone, whatever frames beyond N were read before the rewind.
C3_Replay ==
    op.name = "next" /\ op.ret = "pkt" =>
        /\ pkt.tcp = Sequential(File, pkt.index).tcp
        /\ pkt.rpc = Sequential(File, pkt.index).rpc
        /\ pkt.nfs = Sequential(File, pkt.index).nfs

(***************************************************************************)
(* Retransmissions                                                         *)
(***************************************************************************)
\* the step is a next() that returned a packet with a TCP layer and no SYN
SegmentStep ==
    /\ op'.name = "next" /\ op'.ret = "pkt"
    /\ pkt'.tcp.present
    /\ ~HasFlag(pkt'.tcp.flags_raw, SYN)
    /\ streams[pkt'.tcp.sid].present

\* C6: a segment whose relative sequence number is lower than the last
\* recorded sequence number of its stream is a retransmission: its payload
\* is not decoded and msfrag, frag_off and last_seq of the stream stay as
\* they are; last_seq of a stream never decreases on a segment without SYN.
C6_Retransmission ==
    [][SegmentStep =>
          LET old == streams[pkt'.tcp.sid]
              new == streams'[pkt'.tcp.sid]
          IN /\ pkt'.tcp.seq < old.last_seq =>
                    /\ ~op'.decoded
                    /\ ~pkt'.rpc.ok
                    /\ new.msfrag = old.msfrag
                    /\ new.frag_off = old.frag_off
                    /\ new.last_seq = old.last_seq
                    /\ xmap' = xmap
             /\ new.last_seq >= old.last_seq]_vars

\* a segment was returned without its payload having been decoded, below
\* the last recorded sequence number of a stream that has buffered bytes
C6_Witness ==
    /\ op.name = "next" /\ op.ret = "pkt"
    /\ pkt.tcp.present /\ ~op.decoded
    /\ pkt.tcp.seq < streams[pkt.tcp.sid].last_seq
    /\ streams[pkt.tcp.sid].msfrag # << >>

\* C7: when a frame carries the sequence number and the flags (no SYN) of
\* the frame of the same stream read just before it, it is a retransmission:
\* its payload is not decoded and last_seq and msfrag of the stream stay as
\* they are.
C7_Duplicate ==
    [][/\ SegmentStep
       /\ pkt.valid /\ pkt.tcp.present
       /\ pkt'.index = pkt.index + 1
       /\ pkt'.tcp.sid = pkt.tcp.sid
       /\ pkt'.tcp.seq_number = pkt.tcp.seq_number
       /\ pkt'.tcp.flags_raw = pkt.tcp.flags_raw
       => /\ ~op'.decoded
          /\ ~pkt'.rpc.ok
          /\ streams'[pkt'.tcp.sid].last_seq = streams[pkt'.tcp.sid].last_seq
          /\ streams'[pkt'.tcp.sid].msfrag = streams[pkt'.tcp.sid].msfrag]_vars

(***************************************************************************)
(* Pending calls                                                           *)
(***************************************************************************)
\* C8: a decoded REPLY whose xid has an entry in the pending-call map gets
\* program, version and procedure of that call and the entry is removed; a
\* REPLY without an entry is decoded without them and the map stays as it
\* is; a decoded CALL leaves an entry for its xid.
C8_XidMap ==
    [][op'.name = "next" /\ op'.ret = "pkt" /\ pkt'.rpc.ok =>
          LET xid == pkt'.rpc.xid
          IN /\ pkt'.rpc.type = U(REPLY) /\ xid \in DOMAIN xmap =>
                    /\ pkt'.rpc.hasprog
                    /\ pkt'.rpc.program = xmap[xid].program
                    /\ pkt'.rpc.version = xmap[xid].version
                    /\ pkt'.rpc.procedure = xmap[xid].procedure
                    /\ xid \notin DOMAIN xmap'
             /\ pkt'.rpc.type = U(REPLY) /\ xid \notin DOMAIN xmap =>
                    /\ ~pkt'.rpc.hasprog
                    /\ xmap' = xmap
             /\ pkt'.rpc.type = U(CALL) => xid \in DOMAIN xmap']_vars

(***************************************************************************)
(* Failures                                                                *)
(***************************************************************************)
\* C9: a decode failure inside a layer never leaves next(): the call
\* returns a packet, or raises StopIteration at the end of the capture.
C9_NoDecodeError == op.name = "next" => op.exc \in {"", "StopIteration"}

\* C10: x[index] returns a packet whose frame index is index, or raises
\* IndexError; it never returns a packet of another frame.
C10_GetItem == op.name = "getitem" /\ op.ret = "pkt" => op.ret_index = op.arg

(***************************************************************************)
(* Stream reassembly, read in sequence                                     *)
(***************************************************************************)
\* the packet of record r read from a capture that holds it in one segment
OneSegment(r) == next(<<FrameOf(Whole(r))>>, NewPktt).pkt

\* the last call was next() and it began at frame index i
NextFrom(i) == op.name = "next" /\ op.start = i

\* C4: a record split into three in-order segments of one stream, at any two
\* split points, is delivered on the frame of the third segment with the rpc
\* and nfs layers it has when it arrives in one segment, and the frames of
\* the first two segments carry no rpc layer.
C4_ThreeSegments ==
    file \in SplitCaptures =>
        /\ NextFrom(0) \/ NextFrom(1) => op.ret = "pkt" /\ ~pkt.rpc.ok
        /\ NextFrom(2) =>
              /\ op.ret = "pkt"
              /\ pkt.rpc = OneSegment(file[1][1]).rpc
              /\ pkt.nfs = OneSegment(file[1][1]).nfs

\* position in the capture of the segment that holds two records
PipelinedAt == CHOOSE k \in 1..Len(file) : Len(file[k]) = 3

IsPipelined == file \in PipelinedCaptures

\* C5: a segment that holds two complete records yields the first record and
\* then the second as two consecutive packets; after the second the stream
\* is idle and the next call of next() reads the following frame of the
\* capture.
C5_Pipelined ==
    IsPipelined =>
        /\ NextFrom(PipelinedAt - 1) =>
              /\ op.ret = "pkt"
              /\ pkt.rpc.ok /\ pkt.rpc.xid = X1
        /\ NextFrom(PipelinedAt) =>
              /\ op.ret = "pkt"
              /\ pkt.index = PipelinedAt
              /\ pkt.rpc.ok /\ pkt.rpc.xid = X2
              /\ streams[1].msfrag = << >> /\ streams[1].frag_off = 0
        /\ NextFrom(PipelinedAt + 1) /\ PipelinedAt < Len(file) =>
              /\ op.ret = "pkt"
              /\ pkt.tcp.sid = 2

(***************************************************************************)
(* The index counter                                                       *)
(***************************************************************************)
\* the step went back through rewind(): called directly, by an indexed
\* access below the index, or by a match that found nothing
ByRewind ==
    \/ op'.name = "rewind"
    \/ op'.name = "getitem" /\ op'.arg < index
    \/ op'.name = "match" /\ op'.ret = "None"

\* the step is a next() of a live object at <EOF> of its file with the next
\* trace file on disk
LiveSwitch ==
    /\ live /\ op'.name = "next"
    /\ fh /\ offset = EOF(File)
    /\ NextFileExists(rotated, findex)

\* C11: a next() that returns a packet returns the one whose frame index is
\* the index counter and adds exactly 1 to the counter; a next() that raises
\* leaves the counter as it is; the counter goes down only through rewind()
\* (called directly, by a backward indexed access or by a failed match).
C11_IndexOrder ==
    [][/\ op'.name = "next" /\ op'.ret = "pkt" => pkt'.index = index /\ index' = index + 1
       /\ op'.name = "next" /\ op'.ret # "pkt" => index' = index
       /\ index' < index => ByRewind]_vars

\* C15: a live object whose read is at <EOF> with the next trace file on
\* disk switches to that file, and next() returns its first packet with the
\* frame index that follows the last one delivered; the call raises nothing.
C15_LiveSwitch ==
    [][LiveSwitch =>
          /\ file' = rotated[findex + 1]
          /\ op'.ret = "pkt" /\ op'.exc = ""
          /\ pkt'.index = index
          /\ index' = index + 1]_vars

(***************************************************************************)
(* rewind                                                                  *)
(***************************************************************************)
\* C12: rewind(i) with 0 <= i < len(pkt_map) returns True and the next()
\* that follows it returns the packet whose frame index is i; rewind(i) with
\* i negative or not below len(pkt_map) returns False and leaves the index,
\* the file offset and the state of the streams as they were.
C12_Rewind ==
    [][/\ op'.name = "rewind" /\ op'.arg >= 0 /\ op'.arg < Len(pkt_map) => op'.ret = "True"
       /\ op'.name = "rewind" /\ (op'.arg < 0 \/ op'.arg >= Len(pkt_map)) =>
              /\ op'.ret = "False"
              /\ UNCHANGED <<index, offset, streams, pkt_map, xmap>>
       /\ op.name = "rewind" /\ op.ret = "True" /\ op'.name = "next" =>
              /\ op'.ret = "pkt"
              /\ pkt'.index = op.arg]_vars

(***************************************************************************)
(* match with maxindex                                                     *)
(***************************************************************************)
\* C13: for every maxindex m >= 0, m = 0 included, match(expr, maxindex=m)
\* never returns a packet whose frame index is m or more; a match that
\* returns None leaves the index where the search started.
C13_MaxIndex ==
    op.name = "match" /\ op.arg # NoMax =>
        /\ op.ret = "pkt" => op.ret_index < op.arg
        /\ op.ret = "None" => index = op.start

(***************************************************************************)
(* End of the trace                                                        *)
(***************************************************************************)
\* fewer than 16 bytes, or fewer than 16 + length_inc bytes, are left in
\* the file at the offset the record is read from
ShortRead(cur, at) ==
    \/ at = EOF(cur)
    \/ \E k \in 1..Len(cur) :
           Off(cur, k) = at /\ (cur[k].stored < REC_HDR \/ cur[k].stored < REC_HDR + cur[k].length_inc)

\* C14: not live, a next() that finds fewer than the 16 bytes of a record
\* header, or fewer than length_inc bytes of data, raises StopIteration and
\* leaves the index as it is; a next() that follows a next() that raised
\* StopIteration raises StopIteration again.
C14_EndOfTrace ==
    [][~live /\ op'.name = "next" =>
          /\ ShortRead(File, next_start(Self).offset) =>
                 op'.exc = "StopIteration" /\ index' = index
          /\ op.name = "next" /\ op.exc = "StopIteration" =>
                 op'.exc = "StopIteration" /\ index' = index]_vars

\* a next() returned frame 0, the next one found the data of the second
\* record cut short and a third one raised StopIteration again
C14_Witness ==
    /\ op.name = "next" /\ op.exc = "StopIteration"
    /\ Len(file) = 2 /\ Len(file[2]) = 2 /\ file[2][2] > REC_HDR
    /\ index = 1 /\ offset = EOF(File)
    /\ Len(pkt_map) = 2 /\ boffset = EOF(File)

(***************************************************************************)
(* Opening a trace file                                                    *)
(***************************************************************************)
\* the magic number a reader finds in the file, "" when it finds none
MagicOf(tf) == IF tf.head = MAGIC_LE THEN "<" ELSE IF tf.head = MAGIC_BE THEN ">" ELSE ""

\* C16: _getfh on a file of size 0 raises the empty file error without a
\* read; on a file that starts with the little or the big endian magic it
\* sets the byte order of the record headers to that of the magic after one
\* comparison; otherwise it wraps the file in gzip, compares the magic once
\* more and sets the byte order from it, or raises the error of a file that
\* is no tcpdump file; the magic is compared at most twice.
C16_Open ==
    op.name = "_getfh" =>
        /\ Len(op.scanned) <= 2
        /\ tfile.size = 0 =>
               op.exc = "Packet trace file is empty" /\ op.scanned = << >> /\ ~fh /\ offset = 0
        /\ tfile.size > 0 /\ ~tfile.gzip /\ MagicOf(tfile) # "" =>
               header_rec = MagicOf(tfile) /\ Len(op.scanned) = 1
        /\ tfile.size > 0 /\ tfile.gzip /\ MagicOf(tfile) # "" =>
               header_rec = MagicOf(tfile) /\ Len(op.scanned) = 2
        /\ tfile.size > 0 /\ MagicOf(tfile) = "" =>
               op.exc = "Not a tcpdump file" /\ Len(op.scanned) = 2 /\ header_rec = ""
        /\ op.exc = "" => header_rec = MagicOf(tfile) /\ header_rec # "" /\ offset = FILE_HDR

\* a gzip file that holds a big endian trace was opened at the second
\* comparison
C16_Witness ==
    /\ op.name = "_getfh" /\ op.exc = ""
    /\ tfile.gzip /\ header_rec = ">"
    /\ Len(op.scanned) = 2 /\ op.scanned[1] = GZIP_ID /\ op.scanned[2] = MAGIC_BE

(***************************************************************************)
(* and / or of leaves over layers that a packet may not have               *)
(***************************************************************************)
\* the packet has no layer of the leaf
LayerAbsent(p, leaf) ==
    IF leaf.layer = "RPC" THEN ~p.rpc.ok
    ELSE IF leaf.layer = "TCP" THEN ~p.tcp.present
    ELSE ~p.nfs.present

\* the leaf compares equal on the packet
LeafHolds(p, leaf) ==
    IF leaf.layer = "RPC" THEN p.rpc.ok /\ leaf.field = "xid" /\ p.rpc.xid = leaf.value
    ELSE IF leaf.layer = "TCP" THEN p.tcp.present /\ leaf.field = "flags_raw" /\ p.tcp.flags_raw = leaf.value
    ELSE FALSE

\* C17: a leaf whose layer the packet does not have is false and raises
\* nothing: a first match of `A or B` that returns None has passed no packet
\* without the layer of A on which B holds, and a match of `A and B`
\* returns no packet without the layer of A.
C17_AbsentLayer ==
    [][op.name = "init" /\ op'.name = "match" =>
          /\ op'.expr.kind = "or" /\ op'.ret = "None" =>
                 \A k \in 0..(Len(file) - 1) :
                     ~(/\ Sequential(File, k).valid
                       /\ LayerAbsent(Sequential(File, k), op'.expr.a)
                       /\ LeafHolds(Sequential(File, k), op'.expr.b))
          /\ op'.expr.kind = "and" /\ op'.ret = "pkt" => ~LayerAbsent(pkt', op'.expr.a)]_vars

(***************************************************************************)
(* The self test of escape                                                 *)
(***************************************************************************)
MaxStr == 3

\* NUL, line end, the two quotes, backslash, back quote, a, x
EscapeChars ==
    {Chr.nul, Chr.newline, Chr.dquote, Chr.squote, Chr.bslash, Chr.bquote, Chr.a, Chr.x}

EscapeData == UNION {[1..n -> EscapeChars] : n \in 0..MaxStr}

\* no packet trace object is in use
NoTrace ==
    /\ file = << >>
    /\ InitSelf
    /\ live = FALSE /\ findex = 0 /\ rotated = << >>
    /\ tfile = TraceFileOf(<< >>)
    /\ header_rec = ""

\* expr = "data == %s%s%s" % (quote, Pktt.escape(data), quote): the literal
DoEscape(quote) ==
    /\ output.fn = "none"
    /\ output' = [fn |-> "escape", quote |-> quote,
                  expr |-> <<quote>> \o escape(input) \o <<quote>>,
                  ok |-> TRUE, value |-> << >>]
    /\ UNCHANGED <<file, fh, state, index, mindex, offset, boffset, pkt_map, pkt,
                   streams, xmap, op, live, findex, rotated, tfile, header_rec, cursor, input>>

\* expr = re.sub(r'\\\\', r'\\', expr); eval(expr)
DoEval ==
    /\ output.fn = "escape"
    /\ \E r \in {eval_literal(undouble(output.expr), 2, << >>)} :
           output' = [output EXCEPT !.fn = "eval", !.expr = undouble(output.expr),
                                    !.ok = r.ok, !.value = r.value]
    /\ UNCHANGED <<file, fh, state, index, mindex, offset, boffset, pkt_map, pkt,
                   streams, xmap, op, live, findex, rotated, tfile, header_rec, cursor, input>>

InitEscape == NoTrace /\ cursor = NewUnpack(<< >>) /\ input \in EscapeData /\ output = NoOutput

NextEscape ==
    \/ \E quote \in {Chr.squote, Chr.dquote} : DoEscape(quote)
    \/ DoEval

SpecEscape == InitEscape /\ [][NextEscape]_vars

\* C19: the escaped text of a string, put between single or double quotes
\* and evaluated after every two backslashes were made one, is a string
\* literal whose value is the string.
C19_EscapeRoundTrip ==
    output.fn = "eval" => output.ok /\ output.value = input

\* a string with a single quote, a double quote and a backslash was
\* evaluated between double quotes
C19_Witness ==
    /\ output.fn = "eval" /\ output.quote = Chr.dquote
    /\ \A c \in {Chr.squote, Chr.dquote, Chr.bslash} : \E i \in 1..Len(input) : input[i] = c

(***************************************************************************)
(* Reads of an Unpack object                                               *)
(***************************************************************************)
MaxData == 4
MaxRead == 3
MaxOffset == 16
MaxOpaque == 5
MaxBody == 8
MaxBuf == 6

\* an opaque of length n and the count bytes that follow
OpaqueData == {U(n) \o [k \in 1..count |-> 7] : n \in 0..MaxOpaque, count \in 0..MaxBody}

\* the working buffers: up to MaxData bytes, or an opaque
UnpackData == UNION {[1..n -> {1, 2}] : n \in 0..MaxData} \cup OpaqueData

\* buf = x.read(size, pad)
DoRead(size, pad) ==
    /\ cursor.offset + size + pad <= MaxOffset
    /\ \E r \in {read(cursor, size, pad)} :
           /\ cursor' = r.u
           /\ output' = [fn |-> "read", size |-> size, pad |-> pad, buf |-> r.buf, exc |-> ""]
    /\ UNCHANGED <<file, fh, state, index, mindex, offset, boffset, pkt_map, pkt,
                   streams, xmap, op, live, findex, rotated, tfile, header_rec, input>>

\* x.unpack(size, fmt) for a format of size bytes: struct.unpack raises
\* struct.error on a string of another length, after the read
DoUnpack(size) ==
    /\ cursor.offset + size <= MaxOffset
    /\ \E r \in {read(cursor, size, 0)} :
           /\ cursor' = r.u
           /\ output' = [fn |-> "unpack", size |-> size, pad |-> 0, buf |-> r.buf,
                         exc |-> IF Len(r.buf) = size THEN "" ELSE "struct.error"]
    /\ UNCHANGED <<file, fh, state, index, mindex, offset, boffset, pkt_map, pkt,
                   streams, xmap, op, live, findex, rotated, tfile, header_rec, input>>

\* x.seek(offset)
DoSeek(o) ==
    /\ cursor' = seek(cursor, o)
    /\ output' = [fn |-> "seek", size |-> o, pad |-> 0, buf |-> << >>, exc |-> ""]
    /\ UNCHANGED <<file, fh, state, index, mindex, offset, boffset, pkt_map, pkt,
                   streams, xmap, op, live, findex, rotated, tfile, header_rec, input>>

\* x.append(data)
DoAppend(data) ==
    /\ Len(cursor.data) + Len(data) <= MaxBuf
    /\ cursor' = append(cursor, data)
    /\ output' = [fn |-> "append", size |-> 0, pad |-> 0, buf |-> data, exc |-> ""]
    /\ UNCHANGED <<file, fh, state, index, mindex, offset, boffset, pkt_map, pkt,
                   streams, xmap, op, live, findex, rotated, tfile, header_rec, input>>

\* x.insert(data)
DoInsert(data) ==
    /\ Len(data) + Len(getbytes(cursor)) <= MaxBuf
    /\ cursor' = insert(cursor, data)
    /\ output' = [fn |-> "insert", size |-> 0, pad |-> 0, buf |-> data, exc |-> ""]
    /\ UNCHANGED <<file, fh, state, index, mindex, offset, boffset, pkt_map, pkt,
                   streams, xmap, op, live, findex, rotated, tfile, header_rec, input>>

\* buf = x.unpack_opaque(maxcount)
DoOpaque(maxcount) ==
    /\ cursor.offset + 8 + unpack_uint(cursor).value <= MaxOffset
    /\ \E r \in {unpack_opaque(cursor, maxcount)} :
           /\ cursor' = r.u
           /\ output' = [fn |-> "unpack_opaque", size |-> maxcount, pad |-> 4, buf |-> r.buf,
                         exc |-> r.exc]
    /\ UNCHANGED <<file, fh, state, index, mindex, offset, boffset, pkt_map, pkt,
                   streams, xmap, op, live, findex, rotated, tfile, header_rec, input>>

InitCursor ==
    /\ NoTrace
    /\ cursor \in {NewUnpack(d) : d \in UnpackData}
    /\ input = << >> /\ output = NoOutput

NextCursor ==
    \/ \E size \in 0..MaxRead, pad \in {0, 4} : DoRead(size, pad)
    \/ \E size \in 1..MaxRead : DoUnpack(size)
    \/ \E o \in 0..(MaxBuf + 1) : DoSeek(o)
    \/ DoAppend(<<7>>)
    \/ \E data \in {<< >>, <<5>>} : DoInsert(data)
    \/ \E maxcount \in 0..MaxRead : DoOpaque(maxcount)

SpecCursor == InitCursor /\ [][NextCursor]_vars

\* C20: read(n) gives the next n bytes and moves the offset by n when n
\* bytes or more are unread, and raises when fewer are.
C20_Read ==
    [][output'.fn = "read" /\ output'.pad = 0 =>
          IF Len(cursor.data) - cursor.offset >= output'.size
          THEN /\ output'.exc = ""
               /\ output'.buf = Slice(cursor.data, cursor.offset, cursor.offset + output'.size)
               /\ Len(output'.buf) = output'.size
               /\ cursor'.offset = cursor.offset + output'.size
          ELSE output'.exc # ""]_vars

\* C21: the offset pointer is inside the working buffer, so that size() is
\* not negative; a seek past the end of the buffer sets it to the end.
C21_OffsetInBuffer ==
    /\ 0 <= cursor.offset /\ cursor.offset <= Len(cursor.data)
    /\ output.fn = "seek" /\ output.size > Len(cursor.data) => cursor.offset = Len(cursor.data)

\* C22: after insert(b) the offset pointer is 0 and the unread bytes are b
\* followed by the bytes that were unread before; the object is as
\* Unpack(b + getbytes()), with none of the bytes before the old offset.
C22_Insert ==
    [][output'.fn = "insert" =>
          /\ cursor'.offset = 0
          /\ getbytes(cursor') = output'.buf \o getbytes(cursor)
          /\ getbytes(cursor) = SubSeq(cursor.data, cursor.offset + 1, Len(cursor.data))
          /\ cursor' = NewUnpack(output'.buf \o getbytes(cursor))]_vars

\* a byte was inserted in front of the last two bytes of the length of an
\* opaque, the offset pointer being after the first two
C22_Witness ==
    /\ output.fn = "insert" /\ output.buf = <<5>>
    /\ Len(cursor.data) >= 3
    /\ cursor.data[1] = 5 /\ cursor.data[2] = 0 /\ cursor.data[3] # 0

\* the length that the next 4 bytes of the working buffer give
NextLength(u) == BigEndian(SubSeq(u.data, u.offset + 1, u.offset + 4))

\* C23: unpack_opaque(maxcount) on a buffer whose next 4 bytes give the
\* length L raises the maximum length error when maxcount > 0 and
\* L > maxcount, and otherwise returns the L bytes that follow and moves
\* the offset pointer by 4 + L rounded up to a multiple of 4.
C23_Opaque ==
    [][output'.fn = "unpack_opaque" /\ Len(getbytes(cursor)) >= 4 =>
          IF output'.size > 0 /\ NextLength(cursor) > output'.size
          THEN output'.exc = "Opaque exceeds maximum length"
          ELSE /\ output'.exc = ""
               /\ Len(output'.buf) = NextLength(cursor)
               /\ output'.buf = SubSeq(cursor.data, cursor.offset + 5,
                                       cursor.offset + 4 + NextLength(cursor))
               /\ cursor'.offset = cursor.offset + 4 + ((NextLength(cursor) + 3) \div 4) * 4]_vars

(***************************************************************************)
(* NFS leaves                                                              *)
(***************************************************************************)
\* the positions (from 0) of the items of the frame named d on which the
\* leaf compares equal; a frame that is no compound has no items
ItemsFor(d, leaf) ==
    IF Len(d) # 4 THEN {}
    ELSE {j \in 0..(Len(d[4]) - 1) :
             /\ d[4][j + 1] = leaf.value
             /\ \/ leaf.field = "op"
                \/ leaf.field = "argop" /\ d[1] = 1
                \/ leaf.field = "resop" /\ d[1] = 2}

\* the leaf compares equal on the compound itself
TopFor(d, leaf) ==
    /\ Len(d) = 4
    /\ \/ leaf.field = "status" /\ d[1] = 2 /\ leaf.value = U(d[3])
       \/ leaf.field = "tag" /\ leaf.value = << >>

\* what the leaf is on the frame named d
LeafFor(d, leaf) ==
    IF leaf.field \in {"status", "tag"} THEN TopFor(d, leaf) ELSE ItemsFor(d, leaf) # {}

ProgramNumber(w) == ((w[1] * 256 + w[2]) * 256 + w[3]) * 256 + w[4]

TransientFirst == 1073741824

TransientLast == 1610612735

\* the call of the capture whose frame k holds the message (the reply takes
\* the program of its call)
CallOf(k) == IF file[k][3].type = CALL THEN file[k][3] ELSE file[1][3]

\* C24: a packet with an rpc layer whose program is 100003 has an NFS layer
\* decoded by the compound decoder, one whose program lies in
\* [0x40000000, 0x5FFFFFFF] an NFS layer decoded by the callback decoder (the
\* arguments for a call, the result for a reply), and one of any other
\* program has no NFS layer, keeps its rpc layer and no error is raised.
C24_Dispatch ==
    op.name = "next" /\ op.ret = "pkt" /\ Len(file[pkt.index + 1]) = 5
    /\ pkt.rpc.ok /\ pkt.rpc.hasprog =>
        LET program == ProgramNumber(CallOf(pkt.index + 1).program)
        IN IF program = NFS_PROGRAM
           THEN /\ pkt.nfs.present /\ ~pkt.nfs.cb
                /\ pkt.nfs.isarg = (pkt.rpc.type = U(CALL))
           ELSE IF program >= TransientFirst /\ program <= TransientLast
           THEN /\ pkt.nfs.present /\ pkt.nfs.cb
                /\ pkt.nfs.isarg = (pkt.rpc.type = U(CALL))
           ELSE ~pkt.nfs.present /\ op.exc = "" /\ pkt.rpc.ok

(***************************************************************************)
(* decode_nfs on one record: rpc = RPC(pktt, proto=6), then                *)
(* rpc.decode_nfs()                                                        *)
(***************************************************************************)
\* the length and the sequence number in front of the arguments or the
\* result of a message with integrity
GssData == U(12) \o U(5)

\* nothing, an empty token, a token of 4 bytes, one of 2 bytes and its
\* padding, one that is cut short
Checksums == {<< >>, U(0), U(4) \o <<9, 9, 9, 9>>, U(2) \o <<9, 9, 0, 0>>, U(8) \o <<9, 9, 9, 9>>}

\* compounds that the decoders raise on: more items than bytes
BadArgs == U(99) \o U(OP_OPEN)

BadRes == U(0) \o U(99)

GssCreds ==
    {AuthNone, GssCred(RPCSEC_GSS_DATA, rpc_gss_svc_integrity), GssCred(RPCSEC_GSS_DATA, 1),
     GssCred(RPCSEC_GSS_INIT, rpc_gss_svc_integrity)}

\* program, version
Compounds == {<<NfsProgramWord, 4>>, <<<<64, 0, 0, 0>>, 1>>}

\* a record, the pending-call map and the bytes of the record after the RPC
\* header
DecodeCall(m) == [data |-> RpcRec(X1, m), xmap |-> EmptyMap, body |-> m.body]

DecodeReply(call, m) ==
    [data |-> RpcRec(X1, m),
     xmap |-> Put(EmptyMap, X1, CallEntry(0, rpc_header(RpcRec(X1, call)), TRUE)),
     body |-> m.body]

DecodeInputs ==
    {DecodeCall(RpcCall(p[1], p[2], 1, c, AuthNone, g \o b \o k)) :
        p \in Compounds, c \in GssCreds, g \in {<< >>, GssData}, b \in {ArgsBody, BadArgs},
        k \in Checksums}
    \cup {DecodeReply(RpcCall(p[1], p[2], 1, c, AuthNone, ArgsBody), RpcReply(v, g \o b \o k)) :
             p \in Compounds, c \in GssCreds, v \in {AuthNone, GssVerf},
             g \in {<< >>, GssData}, b \in {ResBody, BadRes}, k \in Checksums}

DoDecodeNfs ==
    /\ output.fn = "none"
    /\ \E r \in {RPC(input.data, input.xmap, TRUE, 0)} :
       \E n \in {decode_nfs(r.rpc, r.rpc.d)} :
           output' = [fn |-> "decode_nfs", rpc |-> Layer(n.rpc), nfs |-> n.nfs,
                      decoder |-> n.decoder, given |-> n.given, d |-> n.d, exc |-> ""]
    /\ UNCHANGED <<file, fh, state, index, mindex, offset, boffset, pkt_map, pkt,
                   streams, xmap, op, live, findex, rotated, tfile, header_rec, cursor, input>>

InitDecodeNfs ==
    NoTrace /\ cursor = NewUnpack(<< >>) /\ input \in DecodeInputs /\ output = NoOutput

NextDecodeNfs == DoDecodeNfs

SpecDecodeNfs == InitDecodeNfs /\ [][NextDecodeNfs]_vars

\* what the decoder that was called gives on the bytes d
Decoded(decoder, d) ==
    IF decoder = "unpack_COMPOUND4args" THEN unpack_COMPOUND4args(d)
    ELSE IF decoder = "unpack_COMPOUND4res" THEN unpack_COMPOUND4res(d)
    ELSE IF decoder = "unpack_CB_COMPOUND4args" THEN unpack_CB_COMPOUND4args(d)
    ELSE unpack_CB_COMPOUND4res(d)

SysBeyond(d) ==
    /\ Len(d) = 5 /\ d[3].type = CALL
    /\ \E n \in Machines, g \in GidCounts :
           /\ d[3].cred = AuthSys(n, g)
           /\ n > 255 \/ g > 16

\* C26: the packet of a call whose AUTH_SYS credential has a machine name of
\* more than 255 bytes or more than 16 supplementary gids has no rpc layer;
\* no entry is added to the pending-call map, no exception propagates and
\* the ethernet, ip and tcp layers stay on the packet.
C26_AuthSysLimits ==
    op.name = "next" /\ op.ret # "" /\ pkt.index # NoIndex /\ SysBeyond(file[pkt.index + 1]) =>
        /\ op.ret = "pkt" /\ op.exc = ""
        /\ ~pkt.rpc.ok /\ ~pkt.nfs.present
        /\ xmap = EmptyMap
        /\ pkt.ethernet /\ pkt.ip /\ pkt.tcp.present

\* the packet of a call with a machine name of 256 bytes and 16 gids was
\* returned
C26_Witness ==
    /\ op.name = "next" /\ op.ret = "pkt" /\ pkt.index = 0
    /\ file[1][3].cred = AuthSys(256, 16)
    /\ pkt.tcp.present /\ ~pkt.rpc.ok

(***************************************************************************)
(* The state of a stream between the segments of a record                  *)
(***************************************************************************)
\* C27: the frame of a segment that is not truncated and that starts or
\* continues a record of which bytes are still missing has no rpc and no
\* nfs layer, and the whole payload of the segment is appended to msfrag:
\* over the in-order segments of the record msfrag is the concatenation of
\* their payloads, until the record completes.
C27_Buffering ==
    file \in SplitCaptures /\ op.name = "next" /\ op.ret = "pkt" /\ pkt.index \in {0, 1} =>
        /\ ~pkt.rpc.ok /\ ~pkt.nfs.present
        /\ streams[1].msfrag = Take(Records[file[1][1]], file[pkt.index + 1][3])


\* the step is a next() that returned a packet whose TCP payload was
\* processed, on a stream that exists
PayloadStep ==
    /\ op'.name = "next" /\ op'.ret = "pkt"
    /\ pkt'.tcp.present /\ op'.decoded
    /\ streams[pkt'.tcp.sid].present

\* the frame that the step read: the record at the file offset
FrameRead == RecordAt(File, IF fh THEN offset ELSE FILE_HDR)

\* the stream of the frame with no bytes kept and no record offset
Idle(sid) == [streams EXCEPT ![sid] = [@ EXCEPT !.msfrag = << >>, !.frag_off = 0]]

\* the frame decoded on the idle stream
Fresh == TCP_init(pkt'.index, FrameRead.length_orig - FrameRead.length_inc, FrameRead,
                  Idle(pkt'.tcp.sid), xmap)

\* C28: on a stream whose msfrag is not empty, a segment from whose payload
\* alone an RPC header decodes is decoded as a fresh record: the layers of
\* its packet and the stream afterwards are those it gives on the stream
\* with msfrag and frag_off cleared, and msfrag holds none of the old bytes;
\* a segment from whose payload alone no header decodes is decoded with
\* msfrag in front of its payload: the record of the two is delivered, or
\* buffered when bytes of it are still missing.  (No decode is attempted on
\* a segment of at most 20 zero bytes that is out of sequence.)
C28_Resync ==
    [][PayloadStep /\ streams[pkt'.tcp.sid].msfrag # << >> /\ FrameRead.payload # << >> =>
          LET old     == streams[pkt'.tcp.sid]
              new     == streams'[pkt'.tcp.sid]
              payload == FrameRead.payload
              joined  == rpc_header(old.msfrag \o payload)
          IN IF Len(payload) <= NONVALID_MAX /\ AllZero(payload)
                /\ pkt'.tcp.seq - old.last_seq # Len(old.msfrag)
             THEN \* no decode attempt on zero bytes out of sequence
                  ~pkt'.rpc.ok /\ new.msfrag = old.msfrag
             ELSE IF rpc_header(payload).ok
             THEN /\ new = Fresh.streams[pkt'.tcp.sid]
                  /\ pkt'.rpc = Layer(Fresh.rpc) /\ pkt'.nfs = Fresh.nfs
                  /\ \E k \in 0..Len(payload) : new.msfrag = Drop(payload, k)
             ELSE IF ~joined.ok THEN ~pkt'.rpc.ok
             ELSE IF FrameRead.length_orig = FrameRead.length_inc
                     /\ Len(old.msfrag \o payload) - 4 < joined.fsize
             THEN ~pkt'.rpc.ok /\ new.msfrag = old.msfrag \o payload
             ELSE /\ pkt'.rpc.ok /\ pkt'.rpc.xid = joined.xid
                  /\ pkt'.rpc.fsize = joined.fsize
                  /\ Len(new.msfrag) <= Len(old.msfrag \o payload) - 4 - joined.fsize]_vars

\* the start of a call was buffered and the next segment, a whole call, was
\* delivered with the stream idle afterwards
C28_Witness ==
    /\ file = <<Named(A_PART1), Named(A_CALL)>>
    /\ op.name = "next" /\ op.ret = "pkt" /\ pkt.index = 1
    /\ pkt.rpc.ok /\ pkt.nfs.present
    /\ streams[1].msfrag = << >> /\ streams[1].frag_off = 0


\* the step returned the packet of a segment without payload that is not
\* truncated, on a stream that exists
EmptyStep ==
    /\ op'.name = "next" /\ op'.ret = "pkt"
    /\ pkt'.tcp.present /\ pkt'.tcp.length = 0
    /\ pkt'.length_orig = pkt'.length_inc
    /\ streams[pkt'.tcp.sid].present

\* a segment without payload whose flags are exactly ACK leaves msfrag,
\* frag_off and last_seq of its stream as they are
AckKeeps ==
    EmptyStep /\ pkt'.tcp.flags_raw = ACK_ONLY =>
        /\ streams'[pkt'.tcp.sid].msfrag = streams[pkt'.tcp.sid].msfrag
        /\ streams'[pkt'.tcp.sid].frag_off = streams[pkt'.tcp.sid].frag_off
        /\ streams'[pkt'.tcp.sid].last_seq = streams[pkt'.tcp.sid].last_seq

\* the stream of the segment has no bytes kept and no record offset after
\* the step
Cleared == streams'[pkt'.tcp.sid].msfrag = << >> /\ streams'[pkt'.tcp.sid].frag_off = 0

\* C29 as it is stated: an acknowledgment without payload leaves the
\* stream as it is, and every segment without payload and with other flags
\* clears a stream whose msfrag is not empty
EveryEmptySegmentClears ==
    [][/\ AckKeeps
       /\ EmptyStep /\ pkt'.tcp.flags_raw # ACK_ONLY /\ streams[pkt'.tcp.sid].msfrag # << >>
          => Cleared]_vars

\* C29: a segment without payload whose flags are exactly ACK leaves msfrag,
\* frag_off and last_seq of its stream as they are, whatever the state of
\* the stream; a segment without payload and with any other flags that is
\* processed (its sequence number is not below last_seq of the stream)
\* while msfrag is not empty clears msfrag and sets frag_off to 0, and one
\* that is a retransmission leaves msfrag and frag_off as they are.
C29_EmptySegment ==
    [][/\ AckKeeps
       /\ EmptyStep /\ pkt'.tcp.flags_raw # ACK_ONLY /\ streams[pkt'.tcp.sid].msfrag # << >>
          => IF op'.decoded
             THEN Cleared
             ELSE /\ streams'[pkt'.tcp.sid].msfrag = streams[pkt'.tcp.sid].msfrag
                  /\ streams'[pkt'.tcp.sid].frag_off = streams[pkt'.tcp.sid].frag_off
                  /\ pkt'.tcp.seq < streams[pkt'.tcp.sid].last_seq]_vars

\* a FIN without payload, in sequence, was read on a stream that held the
\* start of a call, and the stream is idle
C29_Witness ==
    /\ Len(file) >= 2 /\ file[1] = Named(A_PART1) /\ file[2] = Named(A_FIN)
    /\ op.name = "next" /\ op.ret = "pkt" /\ pkt.index = 1 /\ op.decoded
    /\ streams[1].msfrag = << >> /\ streams[1].frag_off = 0


\* d is a sequence of complete records, each of one last fragment
RECURSIVE Complete(_)
Complete(d) ==
    \/ d = << >>
    \/ /\ Len(d) >= 4 /\ d[1] = LAST_FRAGMENT
       /\ Val31(Word(d)) > 0 /\ Val31(Word(d)) <= Len(d) - 4
       /\ Complete(Drop(d, 4 + Val31(Word(d))))

\* the xid of the last record of a sequence of complete records
RECURSIVE LastXid(_)
LastXid(d) ==
    IF Len(d) = 4 + Val31(Word(d)) THEN Word(Drop(d, 4))
    ELSE LastXid(Drop(d, 4 + Val31(Word(d))))

\* C30: when the bytes kept for the stream (msfrag, or none and the record
\* offset frag_off into the payload) and the payload of a segment make up
\* complete records and the segment is processed to the last of them, the
\* stream is idle afterwards: msfrag is empty and frag_off is 0.
C30_Idle ==
    [][PayloadStep /\ FrameRead.payload # << >> =>
          LET old == streams[pkt'.tcp.sid]
              new == streams'[pkt'.tcp.sid]
              d   == IF old.msfrag # << >> THEN old.msfrag \o FrameRead.payload
                     ELSE Drop(FrameRead.payload, old.frag_off)
          IN d # << >> /\ Complete(d) /\ pkt'.rpc.ok /\ pkt'.rpc.xid = LastXid(d)
             /\ offset' > offset
             => new.msfrag = << >> /\ new.frag_off = 0]_vars

\* the second of two calls in one segment was delivered, read from the
\* record offset of the first, and the stream is idle
C30_Witness ==
    /\ Len(file) = 2 /\ file[2] = Whole(3)
    /\ op.name = "next" /\ op.ret = "pkt" /\ pkt.index = 2
    /\ pkt.rpc.ok /\ pkt.rpc.xid = X2
    /\ streams[1].msfrag = << >> /\ streams[1].frag_off = 0

(***************************************************************************)
(* IPv6 addresses and their written forms                                  *)
(***************************************************************************)
GroupLow == 171
GroupHigh == 43981

\* the addresses: eight groups, most significant first
Addresses ==
    {g \in [1..8 -> {0, GroupLow, GroupHigh}] : \A k \in 2..8 : g[k] # GroupHigh}

\* the addresses an IPv6Addr object is made of
SelfAddresses ==
    {g \in Addresses : g[1] # GroupHigh /\ Cardinality({k \in 1..8 : g[k] = 0}) \in {0, 1, 2, 7, 8}}

\* s.upper()
upper(s) == [k \in 1..Len(s) |-> IF s[k] \in 97..122 THEN s[k] - 32 ELSE s[k]]

\* the groups i..j of an address that are all zero written as "::"
Compressed(g, i, j) ==
    join_colon([k \in 1..(i - 1) |-> hex_x(g[k])]) \o <<Chr.colon, Chr.colon>>
    \o join_colon([k \in 1..(8 - j) |-> hex_x(g[j + k])])

\* the longest runs of zero groups of an address
ZeroRuns(g) ==
    {r \in (1..8) \X (1..8) :
        /\ r[1] <= r[2]
        /\ \A k \in r[1]..r[2] : g[k] = 0
        /\ (r[1] = 1 \/ g[r[1] - 1] # 0)
        /\ (r[2] = 8 \/ g[r[2] + 1] # 0)}

\* the written forms of an address
Written(g) ==
    {[form |-> "int", int |-> TRUE, groups |-> g, text |-> << >>]}
    \cup {[form |-> f[1], int |-> FALSE, groups |-> g, text |-> f[2]] :
             f \in {<<"hex", Hex32(g)>>,
                    <<"0xHEX", <<Chr.zero, Chr.x>> \o upper(Hex32(g))>>,
                    <<"groups", join_colon([k \in 1..8 |-> hex_04x(g[k])])>>,
                    <<"GROUPS", upper(join_colon([k \in 1..8 |-> hex_x(g[k])]))>>}}
    \cup {[form |-> "compressed", int |-> FALSE, groups |-> g,
           text |-> Compressed(g, r[1], r[2])] : r \in ZeroRuns(g)}

NoAddr == [fn |-> "none"]

\* ip = IPv6Addr(a)
DoIPv6Addr ==
    /\ output = NoOutput
    /\ \E c \in {IPv6Addr([int |-> FALSE, text |-> Hex32(input.a)])} :
           output' = [fn |-> "IPv6Addr", ok |-> c.ok, self |-> c.ip, value |-> FALSE]
    /\ UNCHANGED <<file, fh, state, index, mindex, offset, boffset, pkt_map, pkt,
                   streams, xmap, op, live, findex, rotated, tfile, header_rec, cursor, input>>

\* ip == b
DoAddrEq ==
    /\ output.fn = "IPv6Addr" /\ output.ok
    /\ \E e \in {IPv6Addr_eq(output.self, input.b)} :
           output' = [fn |-> "eq", ok |-> e.ok, self |-> output.self, value |-> e.eq]
    /\ UNCHANGED <<file, fh, state, index, mindex, offset, boffset, pkt_map, pkt,
                   streams, xmap, op, live, findex, rotated, tfile, header_rec, cursor, input>>

InitAddr ==
    /\ NoTrace /\ cursor = NewUnpack(<< >>) /\ output = NoOutput
    /\ \E a \in SelfAddresses, g \in Addresses :
           \E b \in Written(g) : input = [a |-> a, b |-> b]

NextAddr == DoIPv6Addr \/ DoAddrEq

SpecAddr == InitAddr /\ [][NextAddr]_vars

\* C40: an IPv6Addr object made of an address a equals b, in whatever way b
\* is written (integer, 32 hex digits, eight groups, "::" form), exactly when
\* b is the address a
C40_Equality ==
    output.fn = "eq" => (output.ok /\ (output.value <=> (input.a = input.b.groups)))

(***************************************************************************)
(* Segments of several 4-tuples, over IPv4 and over IPv6                   *)
(***************************************************************************)
StreamFrames == {A_SYN, A_CALL, A_PART1, A_PART2, B_REPLY, C_PART1, C_PART2, D_PART1, D_PART2, D_SYN}

StreamCaptures == UNION {[1..n -> {Named(f) : f \in StreamFrames}] : n \in 1..MaxFrames}

InitStreams == file \in StreamCaptures /\ InitSelf /\ NotLive

NextStreams == DoNext

SpecStreams == InitStreams /\ [][NextStreams]_vars

\* the step is a next() that returned a packet with a TCP layer
TcpStep == op'.name = "next" /\ op'.ret = "pkt" /\ pkt'.tcp.present

\* C31: a segment changes the reassembly state of the stream of its own
\* directional 4-tuple only: the state that the segments of any other
\* 4-tuple are processed with stays as it is, and an entry of the stream map
\* is never removed.
C31_OwnStream ==
    [][/\ TcpStep =>
             \A t \in Streams :
                 Tuples[t] # Tuples[FrameRead.sid]
                     => streams'[StreamOf(t)] = streams[StreamOf(t)]
       /\ \A t \in Streams : streams[t].present => streams'[t].present]_vars


\* C32: the first segment of a stream and every SYN segment set the base of
\* the stream to their raw sequence number and have the relative sequence
\* number 0; every other segment leaves the base as it is and has the
\* relative sequence number raw - base modulo the sequence space, never
\* negative.
C32_RelativeSeq ==
    [][TcpStep =>
          LET old == streams[StreamOf(FrameRead.sid)]
              new == streams'[StreamOf(FrameRead.sid)]
          IN IF ~old.present \/ HasFlag(FrameRead.flags_raw, SYN)
             THEN new.seq_base = FrameRead.seq_number /\ pkt'.tcp.seq = 0
             ELSE /\ new.seq_base = old.seq_base
                  /\ pkt'.tcp.seq >= 0
                  /\ pkt'.tcp.seq % SeqSpace
                        = (FrameRead.seq_number - old.seq_base) % SeqSpace]_vars


(***************************************************************************)
(* Frames that no decoder is selected for                                  *)
(***************************************************************************)
\* the files have one link type: 113, or Ethernet
RawCaptures ==
    UNION {[1..n -> {Named(L_COOKED)}] \cup
           [1..n -> {Named(f) : f \in {E_ARP, I_UDP, I6_UDP, A_TEXT, A_CALL, B_REPLY}}] :
              n \in 1..MaxFrames}

InitRaw == file \in RawCaptures /\ InitSelf /\ NotLive

NextRaw == DoNext

SpecRaw == InitRaw /\ [][NextRaw]_vars

\* the step is a next() that returned a packet
PktStep == op'.name = "next" /\ op'.ret = "pkt"

\* the packet of the step has the bytes after the last header of its frame
\* as `data` of the layer, and the layers that are given and no other
Undecoded(layer, ethernet, ip, tcp) ==
    /\ pkt'.data = [on |-> layer, bytes |-> FrameRead.payload]
    /\ pkt'.ethernet = ethernet /\ pkt'.ip = ip /\ pkt'.tcp.present = tcp
    /\ ~pkt'.rpc.ok /\ ~pkt'.nfs.present

\* the payload of the frame is not an RPC message, and the stream of the
\* frame holds nothing of an earlier segment
NotRpc ==
    /\ FrameRead.payload # << >>
    /\ ~RPC(FrameRead.payload, xmap, TRUE, index).rpc.ok
    /\ streams[StreamOf(FrameRead.sid)].msfrag = << >>
    /\ streams[StreamOf(FrameRead.sid)].frag_off = 0

\* C33: a frame whose link type, ethertype, IP protocol or TCP payload
\* selects no decoder gives a packet that has the remaining bytes as `data`
\* of the last layer that was decoded (of the record for an unknown link
\* type) and no higher layer.
C33_RawPayload ==
    [][PktStep =>
          IF FrameRead.link_type # LINKTYPE_ETHERNET
          THEN Undecoded("record", FALSE, FALSE, FALSE)
          ELSE IF FrameRead.eth_type \notin {ETH_IPV4, ETH_IPV6}
          THEN Undecoded("ethernet", TRUE, FALSE, FALSE)
          ELSE IF FrameRead.proto # IPPROTO_TCP
          THEN Undecoded("ip", TRUE, TRUE, FALSE)
          ELSE NotRpc => Undecoded("tcp", TRUE, TRUE, TRUE)]_vars


(***************************************************************************)
(* Pktt.next on a live object while the capture file is written.  `file`   *)
(* is the capture when the writer is done, tfile.size the number of its    *)
(* bytes that are on disk, output.pos the position of the file object and  *)
(* input the place of the reader inside next(): "idle" between two calls,  *)
(* "header" and "data" at the two reads of a record, "seek" after a short  *)
(* read.  The global header is on disk and no next trace file is.          *)
(***************************************************************************)
\* len(self._getfh().read(count)) at position pos of a file of size bytes
fh_read(size, pos, count) ==
    IF size - pos >= count THEN count ELSE IF size > pos THEN size - pos ELSE 0

\* the file position is left where the short read ended
fh_seek_none(committed, pos) == pos

\* self._getfh().seek(self.offset): the position of the file object
fh_seek(committed, pos) == committed

LiveCall(pc, phase, short) == [pc |-> pc, phase |-> phase, short |-> short]

FileObj(pos) == [fn |-> "fh", pos |-> pos]

\* the numbers of bytes the writer appends at a time
WriteSizes == {8, REC_HDR, 30}

\* the writer appends n bytes of the capture
DoWrite(n) ==
    /\ tfile.size < EOF(File)
    /\ tfile' = [tfile EXCEPT
                    !.size = IF @ + n > EOF(File) THEN EOF(File) ELSE @ + n,
                    !.rest = IF tfile.size + n > EOF(File) THEN EOF(File) - 4
                             ELSE tfile.size + n - 4]
    /\ UNCHANGED <<file, fh, state, index, mindex, offset, boffset, pkt_map, pkt, streams,
                   xmap, op, live, findex, rotated, header_rec, cursor, input, output>>

\* pkt = x.next() is called: the statements before the first read
DoLiveStart ==
    /\ input.pc = "idle"
    /\ UNCHANGED <<file, live, findex, rotated, tfile, cursor>>
    /\ Fields(next_start(Self))
    /\ output' = IF fh THEN output ELSE FileObj(FILE_HDR)
    /\ input' = LiveCall("header", "header", FALSE)
    /\ op' = Op("next", 0, E_NEVER, "", NonePkt, "", FALSE, << >>)

\* the number of bytes that the read of the call asks for
LiveCount ==
    IF input.pc = "header" THEN REC_HDR ELSE RecordAt(File, offset - REC_HDR).length_inc

\* the record header was read: self.offset += ldata
live_header(m) == [m EXCEPT !.offset = @ + REC_HDR]

\* the captured bytes were read: the rest of next()
live_data(m, frame) ==
    record_index(m, Decode([m EXCEPT !.offset = @ + frame.length_inc], frame))

\* a turn of the loop of _read where the read returns fewer bytes than asked
DoLiveShort ==
    /\ input.pc \in {"header", "data"}
    /\ fh_read(tfile.size, output.pos, LiveCount) # LiveCount
    /\ output' = FileObj(output.pos + fh_read(tfile.size, output.pos, LiveCount))
    /\ input' = LiveCall("seek", input.pc, TRUE)
    /\ UNCHANGED <<file, fh, state, index, mindex, offset, boffset, pkt_map, pkt, streams,
                   xmap, op, live, findex, rotated, tfile, header_rec, cursor>>

\* the read of the record header returns its 16 bytes
DoLiveHeader ==
    /\ input.pc = "header"
    /\ fh_read(tfile.size, output.pos, REC_HDR) = REC_HDR
    /\ UNCHANGED <<file, live, findex, rotated, tfile, cursor>>
    /\ Fields(live_header(Self))
    /\ output' = FileObj(output.pos + REC_HDR)
    /\ input' = LiveCall("data", "data", input.short)
    /\ op' = op

\* the read of the captured bytes returns all of them: the packet is decoded
DoLiveData ==
    /\ input.pc = "data"
    /\ fh_read(tfile.size, output.pos, LiveCount) = LiveCount
    /\ UNCHANGED <<file, live, findex, rotated, tfile, cursor>>
    /\ \E m \in {live_data(Self, RecordAt(File, offset - REC_HDR))} :
           /\ Fields([m EXCEPT !.exc = ""])
           /\ output' = FileObj(IF m.exc = "" THEN m.offset ELSE output.pos + LiveCount)
           /\ input' = LiveCall("idle", "header", input.short)
           /\ op' = Op("next", 0, E_NEVER, IF m.exc = "" THEN "pkt" ELSE "raise",
                       IF m.exc = "" THEN m.pkt ELSE NonePkt, m.exc, m.decoded, << >>)

\* after a short read: seek(self.offset), time.sleep(1) and the next turn
DoLiveSeek ==
    /\ input.pc = "seek"
    /\ output' = FileObj(fh_seek(offset, output.pos))
    /\ input' = LiveCall(input.phase, input.phase, input.short)
    /\ UNCHANGED <<file, fh, state, index, mindex, offset, boffset, pkt_map, pkt, streams,
                   xmap, op, live, findex, rotated, tfile, header_rec, cursor>>

\* captures of one and of two frames
GrowCaptures ==
    {<<Named(A_CALL)>>, <<Named(A_SYN), Named(A_CALL)>>, <<Named(A_CALL), Named(B_REPLY)>>,
     <<Named(A_PART1), Named(A_CALL)>>, <<Named(A_CUT), Named(B_REPLY)>>,
     <<Named(B_REPLY), Named(A_SYN)>>}

\* the numbers of bytes of the first record that are on disk at the start
StartSizes == {0, 8, REC_HDR, 30}

InitGrow ==
    /\ file \in GrowCaptures
    /\ InitSelf
    /\ live = TRUE /\ findex = 0 /\ rotated = << >>
    /\ \E n \in StartSizes :
           tfile = [TraceFileOf(File) EXCEPT !.size = FILE_HDR + n, !.rest = FILE_HDR + n - 4]
    /\ header_rec = ""
    /\ cursor = NewUnpack(<< >>)
    /\ input = LiveCall("idle", "header", FALSE)
    /\ output = FileObj(0)

\* the steps of the writer, and those of the reader
Writer == \E n \in WriteSizes : DoWrite(n)

Reader == DoLiveStart \/ DoLiveShort \/ DoLiveHeader \/ DoLiveData \/ DoLiveSeek

NextGrow == Writer \/ Reader

\* the place of the reader after the turn that reads the captured bytes: a
\* step of NextGrow is this step exactly if it is a step of DoLiveData, and
\* DoLiveData can be taken exactly if this step can
LiveDataTurn ==
    /\ input.pc = "data"
    /\ fh_read(tfile.size, output.pos, LiveCount) = LiveCount
    /\ input' = LiveCall("idle", "header", input.short)

\* the writer goes on until the capture is written; the application goes on
\* calling next(), and the loop of _read goes on
SpecGrow ==
    /\ InitGrow /\ [][NextGrow]_vars
    /\ WF_vars(Writer)
    /\ WF_vars(DoLiveStart) /\ WF_vars(DoLiveShort) /\ WF_vars(DoLiveHeader)
    /\ WF_input(LiveDataTurn) /\ WF_vars(DoLiveSeek)

\* the step is a read of a live object that returned fewer bytes than asked
LiveShortRead == input.pc \in {"header", "data"} /\ input'.pc = "seek"

\* the call returned a packet
Delivered == input.pc = "idle" /\ op.name = "next" /\ op.ret = "pkt"

\* C34: a short read of a live object with no next file consumes nothing
\* (offset, index and packet stay; the file position is back at the offset
\* when the read is tried again); every packet that is returned is the one
\* a reader of the whole file gets for its index, and every call returns
\* once the bytes of its record are written, until the capture is read to
\* its end.
C34_LiveRead ==
    /\ [][LiveShortRead => offset' = offset /\ index' = index /\ pkt' = pkt
                       /\ pkt_map' = pkt_map /\ streams' = streams /\ xmap' = xmap]_vars
    /\ [](input.pc \in {"header", "data"} => output.pos = offset)
    /\ [](Delivered => pkt = Sequential(File, pkt.index))
    /\ [](input.pc = "idle" => \E k \in 1..(Len(file) + 1) : offset \in {0, Off(File, k)})
    /\ ((input.pc # "idle") ~> (input.pc = "idle" \/ offset = EOF(File)))
    /\ <>(offset = EOF(File))

\* a packet was returned by a call that had a short read
C34_Witness == Delivered /\ input.short /\ pkt.index = 1

(***************************************************************************)
(* The packet map                                                          *)
(***************************************************************************)
\* the file offset of the record that is delivered with frame index n when
\* capture f is read by a new object with next() calls alone; -1 when no
\* record is delivered with that index
RECURSIVE start_to(_, _, _, _)
start_to(f, m, n, fuel) ==
    IF fuel = 0 THEN 0 - 1
    ELSE LET r == next(f, m)
         IN IF r.exc = "StopIteration" THEN 0 - 1
            ELSE IF r.exc = "" /\ r.pkt.index = n THEN (IF m.fh THEN m.offset ELSE FILE_HDR)
            ELSE start_to(f, [r EXCEPT !.exc = ""], n, fuel - 1)

RecordStart(f, n) == start_to(f, NewPktt, n, Len(f) + Len(f) + 1)

\* the entries of the packet map are the starts of the delivered records
MapOffsets ==
    \A i \in 1..Len(pkt_map) :
        RecordStart(File, i - 1) # 0 - 1 => pkt_map[i] = RecordStart(File, i - 1)

\* the entries of the packet map do not decrease
MapOrdered == \A i \in 1..(Len(pkt_map) - 1) : pkt_map[i] <= pkt_map[i + 1]

\* the packet map has an entry for no index beyond the highest one reached
MapLength == Len(pkt_map) <= mindex + 1

\* C35: with state tracking on, pkt_map[i] is the file offset at which the
\* record delivered with frame index i starts, for every entry of the map;
\* the entries do not decrease, and the map is never longer than the highest
\* index reached + 1.
C35_PacketMap == state => MapOffsets /\ MapOrdered /\ MapLength

(***************************************************************************)
(* The call that a reply is correlated with                                *)
(***************************************************************************)
\* the step is a next() that returned a REPLY with the program, version and
\* procedure of an entry of the pending-call map
CorrelatedStep ==
    /\ op'.name = "next" /\ op'.ret = "pkt"
    /\ pkt'.rpc.ok /\ pkt'.rpc.type = U(REPLY) /\ pkt'.rpc.hasprog

\* C36: a REPLY that has program, version and procedure from the
\* pending-call map took them from a CALL packet with the same xid and a
\* lower frame index, after any sequence of next, match and rewind calls.
C36_EarlierCall ==
    [][CorrelatedStep =>
          /\ pkt'.rpc.xid \in DOMAIN xmap
          /\ xmap[pkt'.rpc.xid].hasrpc
          /\ xmap[pkt'.rpc.xid].index < pkt'.index]_vars

\* C37: every entry of the pending-call map is a packet that carries the
\* decoded rpc layer of the CALL with that xid; a record that is only partly
\* buffered, a probe of a pipelined header or a segment that does not decode
\* as RPC leaves no entry.
C37_EntriesDecoded == \A xid \in DOMAIN xmap : xmap[xid].hasrpc

(***************************************************************************)
(* An object built with state=False                                        *)
(***************************************************************************)
\* Pktt(tfile, state=False)
InitStateless ==
    /\ file \in Captures
    /\ fh = NewPktt.fh
    /\ state = FALSE
    /\ index = NewPktt.index
    /\ mindex = NewPktt.mindex
    /\ offset = NewPktt.offset
    /\ boffset = NewPktt.boffset
    /\ pkt_map = NewPktt.pkt_map
    /\ pkt = NewPktt.pkt
    /\ streams = NewPktt.streams
    /\ xmap = NewPktt.xmap
    /\ op = [name |-> "init", arg |-> 0, expr |-> E_NEVER, ret |-> "", ret_index |-> NoIndex,
             exc |-> "", decoded |-> FALSE, scanned |-> << >>, start |-> 0]
    /\ NotLive

SpecStateless == InitStateless /\ [][Next]_vars

\* the step is a rewind(i) with i >= 1
LaterRewind == op'.name = "rewind" /\ op'.arg >= 1

\* the step is a match that returned None and started at an index >= 1
LaterFailedMatch == op'.name = "match" /\ op'.ret = "None" /\ index >= 1

EndOfTrace == op.name = "next" /\ op.exc = "StopIteration"

\* a call of next() before end-of-trace: it leaves the index as it is or
\* increments it and leaves the offset at 0, after the first 16 bytes or at
\* a record.  A step of NextSeq before end-of-trace changes the index or the
\* offset, or ends the trace (IterateMoves below), so the caller that goes
\* on calling next() is the caller that goes on taking these steps.
IterateTurn ==
    /\ ~EndOfTrace
    /\ index' \in {index, index + 1}
    /\ offset' \in {0, REC_HDR} \cup {Off(File, k) : k \in 1..(Len(file) + 1)}

\* the iteration goes on until next() raises StopIteration
SpecIterate == InitSeq /\ [][NextSeq]_vars /\ WF_<<index, offset>>(IterateTurn)

\* the step is a next() that returns a packet and puts the file offset back
\* to the start of the record it read
Redelivers ==
    /\ op'.name = "next" /\ op'.ret = "pkt"
    /\ offset' = IF fh THEN offset ELSE FILE_HDR

\* the step is a next() that returns the frame of the last packet again
Redelivered ==
    /\ fh /\ op.name = "next" /\ op.ret = "pkt" /\ offset = boffset
    /\ IsRecord(File, offset)
    /\ op'.name = "next" /\ op'.ret = "pkt"

\* a call before end-of-trace moves on or ends the trace
IterateMoves == [][op'.name = "next" => index' # index \/ offset' # offset \/ EndOfTrace']_vars

\* C39: reading a finite capture with next() ends: a frame is returned
\* again only for a further complete RPC record of the same segment, each
\* time with the offset of the record in the segment (frag_off) higher than
\* before and inside the segment, and StopIteration is raised after finitely
\* many calls.
C39_Terminates ==
    /\ [][Redelivered =>
             /\ pkt'.rpc.ok
             /\ streams[StreamOf(pkt'.tcp.sid)].frag_off > 0
             /\ pkt'.rpc.xid =
                    rpc_header(Drop(FrameRead.payload,
                                    streams[StreamOf(pkt'.tcp.sid)].frag_off)).xid]_vars
    /\ [][Redelivers =>
             /\ streams'[StreamOf(pkt'.tcp.sid)].frag_off
                    > streams[StreamOf(pkt'.tcp.sid)].frag_off
             /\ streams'[StreamOf(pkt'.tcp.sid)].frag_off < Len(FrameRead.payload)]_vars
    /\ IterateMoves
    /\ <>EndOfTrace
    /\ [][EndOfTrace => EndOfTrace' /\ offset' = offset /\ index' = index]_vars

\* the second record of a segment was returned, and then the trace ended
\* with one packet more than the capture has frames
C39_Witness ==
    /\ EndOfTrace /\ Len(file) = 3 /\ index = 4 /\ offset = EOF(File)
    /\ \E k \in 1..Len(file) : Len(file[k]) = 3 /\ file[k][2] = 0

=============================================================================
